---- MODULE Spec2Model ----
(***************************************************************************)
(* A model of the aika discrete-event engine: the hierarchical timing      *)
(* wheel (src/src/clock.rs), the single-threaded World                     *)
(* (src/src/worlds/world.rs), the optimistic Planet                        *)
(* (src/src/mt/hybrid/planet.rs) with its coordinator, the block-consensus *)
(* Galaxy (src/src/mt/hybrid/galaxy.rs) and the GVT controller of the      *)
(* optimistic engine (src/src/mt/optimistic/gvt.rs).                       *)
(***************************************************************************)
EXTENDS Integers, Sequences, FiniteSets, TLC

(***************************************************************************)
(* Bounds of the model.  SLOTS and HEIGHT are the const generics of Clock. *)
(***************************************************************************)
SLOTS == 2
HEIGHT == 2
MaxStep == 7
MaxItems == 2
MaxRollbacks == 1
MaxRollbackStep == 3
MaxLate == 1

\* u64 arithmetic wraps modulo 2^64 when overflow checks are off.  The modulus
\* is scaled to 2^30: a wrapped difference is only ever compared with the
\* wheel's horizon, which it exceeds under either modulus.
WordModulus == 1073741824

VARIABLES
    clock,      \* Clock { wheels, current_idxs, time.step }
    overflow,   \* BTreeSet<Reverse<T>> of the Clock's caller
    cenv,       \* status of the run, build profile, position in the step cycle
    chist,      \* history of the Clock: inserted, returned, discarded items
    world,      \* World of src/src/worlds/world.rs: clock, overflow, run position
    planet,     \* per world: the Planet's wheels, overflows, anti-message journal
    net,        \* messenger pool and inboxes, GVT, LVTs, checkpoint, counters
    phist,      \* history of the Planets: committed reads, retractions, arrivals
    galaxy,     \* Galaxy of src/src/mt/hybrid/galaxy.rs: gvt, next, pending, counters
    gvtcomms,   \* GVTComms: block channel of each planet, the GVT broadcast
    global_clock \* GVT of src/src/mt/optimistic/gvt.rs: the global clock atomic

clockVars == <<clock, overflow, cenv, chist>>
planetVars == <<planet, net, phist>>
galaxyVars == <<galaxy, gvtcomms, global_clock>>
vars == <<clock, overflow, cenv, chist, world, planet, net, phist,
          galaxy, gvtcomms, global_clock>>

(***************************************************************************)
(* Clock: wheel geometry                                                   *)
(***************************************************************************)
RECURSIVE Pow(_, _)
Pow(b, e) == IF e = 0 THEN 1 ELSE b * Pow(b, e - 1)

\* startidx of level k: ((SLOTS).pow(1 + k) - SLOTS) / (SLOTS - 1)
StartIdx(k) == (Pow(SLOTS, 1 + k) - SLOTS) \div (SLOTS - 1)

\* endidx of level k: ((SLOTS).pow(2 + k) - SLOTS) / (SLOTS - 1) - 1
EndIdx(k) == (Pow(SLOTS, 2 + k) - SLOTS) \div (SLOTS - 1) - 1

\* the bound past which insert returns the item to the caller
Horizon == (Pow(SLOTS, 1 + HEIGHT) - SLOTS) \div (SLOTS - 1)

Levels == 0 .. (HEIGHT - 1)
Slots == 0 .. (SLOTS - 1)

EmptyWheels == [k \in Levels |-> [s \in Slots |-> << >>]]

\* Clock::new
NewClock == [wheels |-> EmptyWheels, idxs |-> [k \in Levels |-> 0], step |-> 0]

\* (time - self.time.step) as usize with overflow checks off
WrapSub(a, b) == IF a >= b THEN a - b ELSE a - b + WordModulus

Push(c, k, s, e) == [c EXCEPT !.wheels[k][s] = Append(@, e)]

\* the slot of level k for a delay: the offset computed in Clock::insert
Offset(c, k, delta) == ((delta - StartIdx(k)) \div Pow(SLOTS, k) + c.idxs[k]) % SLOTS

\* the body of the for loop of Clock::insert, from level k on
RECURSIVE InsertLoop(_, _, _, _)
InsertLoop(c, e, delta, k) ==
    IF k >= HEIGHT THEN [clock |-> c, res |-> "err"]
    ELSE IF delta >= StartIdx(k)
         THEN IF delta >= Horizon THEN [clock |-> c, res |-> "err"]
              ELSE IF delta > EndIdx(k) THEN InsertLoop(c, e, delta, k + 1)
              ELSE [clock |-> Push(c, k, Offset(c, k, delta), e), res |-> "ok"]
         ELSE InsertLoop(c, e, delta, k + 1)

\* Clock::insert.  checks = the build has overflow checks (debug profile):
\* the subtraction panics when the item's time is before the clock's step.
ClockInsert(c, e, checks) ==
    IF e.time < c.step /\ checks THEN [clock |-> c, res |-> "panic"]
    ELSE InsertLoop(c, e, WrapSub(e.time, c.step), 0)

(***************************************************************************)
(* The caller's overflow set: BTreeSet<Reverse<T>>, T ordered by time only.*)
(***************************************************************************)
\* BTreeSet::insert: an element equal to one already in the set is not added.
OverflowInsert(ovf, e) ==
    IF \E x \in ovf : x.time = e.time THEN ovf ELSE ovf \cup {e}

\* whether BTreeSet::insert returns true
OverflowAccepts(ovf, e) == ~ \E x \in ovf : x.time = e.time

(***************************************************************************)
(* Clock::tick                                                             *)
(***************************************************************************)
\* a tick without the comparison of the first item's time with the step
TickUnchecked(c) ==
    LET events == c.wheels[0][c.idxs[0]]
        taken == [c EXCEPT !.wheels[0][c.idxs[0]] = << >>]
    IN  IF events = << >>
        THEN [clock |-> taken, res |-> "NoEvents", events |-> << >>]
        ELSE [clock |-> taken, res |-> "Ok", events |-> events]

ClockTick(c) ==
    LET events == c.wheels[0][c.idxs[0]]
        taken == [c EXCEPT !.wheels[0][c.idxs[0]] = << >>]
    IN  IF events # << >> /\ events[1].time < c.step
        THEN [clock |-> taken, res |-> "TimeTravel", events |-> << >>]
        ELSE IF events = << >>
        THEN [clock |-> taken, res |-> "NoEvents", events |-> << >>]
        ELSE [clock |-> taken, res |-> "Ok", events |-> events]

(***************************************************************************)
(* Clock::rotate and Clock::increment                                      *)
(***************************************************************************)
\* the re-insertion loop of rotate: an item insert gives back goes to overflow
RECURSIVE Reinsert(_, _, _, _)
Reinsert(c, ovf, events, checks) ==
    IF events = << >> THEN [clock |-> c, overflow |-> ovf, res |-> "ok"]
    ELSE LET r == ClockInsert(c, Head(events), checks)
         IN  IF r.res = "panic" THEN [clock |-> c, overflow |-> ovf, res |-> "panic"]
             ELSE IF r.res = "err"
             THEN Reinsert(c, OverflowInsert(ovf, Head(events)), Tail(events), checks)
             ELSE Reinsert(r.clock, ovf, Tail(events), checks)

\* the for loop of rotate, from level k on.  The branch for HEIGHT == k, which
\* would refill the wheels from overflow, is inside `for k in 1..HEIGHT`.
RECURSIVE RotateLoop(_, _, _, _)
RotateLoop(c, ovf, k, checks) ==
    IF k >= HEIGHT THEN [clock |-> c, overflow |-> ovf, res |-> "ok"]
    ELSE IF c.step % Pow(SLOTS, k) = 0
         THEN IF HEIGHT = k THEN [clock |-> c, overflow |-> ovf, res |-> "ok"]
              ELSE LET higher == c.wheels[k][c.idxs[k]]
                       c1 == [c EXCEPT !.wheels[k][c.idxs[k]] = << >>,
                                       !.idxs[k] = (@ + 1) % SLOTS]
                       r == Reinsert(c1, ovf, higher, checks)
                   IN  IF r.res = "panic" THEN r
                       ELSE RotateLoop(r.clock, r.overflow, k + 1, checks)
         ELSE RotateLoop(c, ovf, k + 1, checks)

\* a rotation that empties the bucket of wheel 1 without re-inserting its items
RotateDropping(c, ovf, checks) ==
    IF HEIGHT > 1 /\ c.step % SLOTS = 0
    THEN [clock |-> [c EXCEPT !.wheels[1][c.idxs[1]] = << >>,
                              !.idxs[1] = (@ + 1) % SLOTS],
          overflow |-> ovf, res |-> "ok"]
    ELSE [clock |-> c, overflow |-> ovf, res |-> "ok"]

ClockRotate(c, ovf, checks) == RotateLoop(c, ovf, 1, checks)

ClockIncrement(c, ovf, checks) ==
    LET c1 == [c EXCEPT !.idxs[0] = (@ + 1) % SLOTS, !.step = @ + 1]
    IN  IF c1.idxs[0] = 0 THEN ClockRotate(c1, ovf, checks)
        ELSE [clock |-> c1, overflow |-> ovf, res |-> "ok"]

(***************************************************************************)
(* Clock::rollback                                                         *)
(***************************************************************************)
RemoveAt(list, i) == SubSeq(list, 1, i - 1) \o SubSeq(list, i + 1, Len(list))

\* check_process_object_list: `for i in 0..object_list.len()` over a list that
\* shrinks under the loop; indexing past the end panics.  Indices are 0-based
\* in the code and 1-based here.
RECURSIVE CheckLoop(_, _, _, _, _)
CheckLoop(list, time, i, n, gone) ==
    IF i >= n THEN [list |-> list, gone |-> gone, res |-> "ok"]
    ELSE IF i >= Len(list) THEN [list |-> list, gone |-> gone, res |-> "panic"]
    ELSE IF list[i + 1].commit >= time /\ list[i + 1].kind = "Event"
         THEN CheckLoop(RemoveAt(list, i + 1), time, i + 1, n, gone \cup {list[i + 1].id})
         ELSE CheckLoop(list, time, i + 1, n, gone)

check_process_object_list(time, list) == CheckLoop(list, time, 0, Len(list), {})

\* `for i in 0..x.len() { resubmit.push(x.remove(i)) }`: Vec::remove panics
\* when i is not below the current length.
RECURSIVE DrainLoop(_, _, _, _)
DrainLoop(list, i, n, acc) ==
    IF i >= n THEN [list |-> list, acc |-> acc, res |-> "ok"]
    ELSE IF i >= Len(list) THEN [list |-> list, acc |-> acc, res |-> "panic"]
    ELSE DrainLoop(RemoveAt(list, i + 1), i + 1, n, Append(acc, list[i + 1]))

\* the buckets in the order wheels.iter_mut() / x.iter_mut() visits them
BucketOrder == [n \in 1 .. (HEIGHT * SLOTS) |-> <<(n - 1) \div SLOTS, (n - 1) % SLOTS>>]

\* the first loop of rollback, from the n-th bucket on
RECURSIVE CollectLoop(_, _, _, _, _)
CollectLoop(c, time, n, resubmit, gone) ==
    IF n > Len(BucketOrder) THEN [clock |-> c, resubmit |-> resubmit, gone |-> gone, res |-> "ok"]
    ELSE LET k == BucketOrder[n][1]
             s == BucketOrder[n][2]
             x == c.wheels[k][s]
         IN  IF Len(x) > 0
             THEN LET chk == check_process_object_list(time, x)
                      drn == DrainLoop(chk.list, 0, Len(chk.list), resubmit)
                  IN  IF chk.res = "panic" \/ drn.res = "panic"
                      THEN [clock |-> c, resubmit |-> resubmit, gone |-> gone, res |-> "panic"]
                      ELSE CollectLoop([c EXCEPT !.wheels[k][s] = drn.list], time, n + 1,
                                       drn.acc, gone \cup chk.gone)
             ELSE CollectLoop(c, time, n + 1, resubmit, gone)

\* the second loop of rollback: `for i in 0..resubmit.len()` inserting
\* resubmit.remove(i); an item overflow does not accept ends the rollback.
RECURSIVE ResubmitLoop(_, _, _, _, _, _)
ResubmitLoop(c, ovf, resubmit, i, n, checks) ==
    IF i >= n THEN [clock |-> c, overflow |-> ovf, res |-> "ok"]
    ELSE IF i >= Len(resubmit) THEN [clock |-> c, overflow |-> ovf, res |-> "panic"]
    ELSE LET e == resubmit[i + 1]
             rest == RemoveAt(resubmit, i + 1)
             r == ClockInsert(c, e, checks)
         IN  IF r.res = "panic" THEN [clock |-> c, overflow |-> ovf, res |-> "panic"]
             ELSE IF r.res = "err"
             THEN IF OverflowAccepts(ovf, e)
                  THEN ResubmitLoop(c, OverflowInsert(ovf, e), rest, i + 1, n, checks)
                  ELSE [clock |-> c, overflow |-> ovf, res |-> "ClockSubmissionFailed"]
             ELSE ResubmitLoop(r.clock, ovf, rest, i + 1, n, checks)

ClockRollback(c, ovf, time, checks) ==
    LET c1 == [c EXCEPT !.idxs = [k \in Levels |-> 0], !.step = time]
        col == CollectLoop(c1, time, 1, << >>, {})
        rs == ResubmitLoop(col.clock, ovf, col.resubmit, 0, Len(col.resubmit), checks)
    IN  IF col.res = "panic"
        THEN [clock |-> c, overflow |-> ovf, gone |-> {}, res |-> "panic"]
        ELSE [clock |-> rs.clock, overflow |-> rs.overflow, gone |-> col.gone, res |-> rs.res]

\* no Planet runs
PlanetsOff ==
    /\ planet = << >>
    /\ net = [status |-> "off"]
    /\ phist = [log |-> << >>]

\* neither the block coordinator nor the GVT controller runs
GalaxyOff ==
    /\ galaxy = [status |-> "off"]
    /\ gvtcomms = [broadcast |-> << >>]
    /\ global_clock = [status |-> "off"]

(***************************************************************************)
(* A Clock<Object> driven by a caller: items are inserted, the caller      *)
(* ticks and increments, and may roll the clock back.                      *)
(***************************************************************************)
MaxTime == 7
Kinds == {"Event", "Message"}

\* every item held by the wheels
RECURSIVE SeqIds(_)
SeqIds(s) == IF s = << >> THEN {} ELSE {Head(s).id} \cup SeqIds(Tail(s))

LevelIds(c, k) == UNION {SeqIds(c.wheels[k][s]) : s \in Slots}
WheelIds(c) == UNION {SeqIds(c.wheels[k][s]) : k \in Levels, s \in Slots}
WheelCount(c) ==
    LET RECURSIVE Sum(_)
        Sum(n) == IF n = 0 THEN 0
                  ELSE Len(c.wheels[BucketOrder[n][1]][BucketOrder[n][2]]) + Sum(n - 1)
    IN  Sum(Len(BucketOrder))
OverflowIds(ovf) == {x.id : x \in ovf}

\* the buckets <<level, slot>> that hold the item
BucketsOf(c, id) ==
    {b \in Levels \X Slots : id \in SeqIds(c.wheels[b[1]][b[2]])}

InitClock ==
    /\ clock = NewClock
    /\ overflow = {}
    /\ cenv \in [status : {"ok"}, checks : BOOLEAN, phase : {"idle"},
                 nitems : {0}, nrollbacks : {0}]
    /\ chist = [inserted |-> {}, returned |-> << >>, discarded |-> {},
                lastTick |-> [res |-> "none", at |-> 0, events |-> << >>],
                moved |-> 0, lost |-> {}, lastRollback |-> "none",
                lastInsert |-> [res |-> "none", time |-> 0, step |-> 0,
                                idxs |-> NewClock.idxs, where |-> {}, overflowed |-> FALSE]]
    /\ world = [status |-> "off"]
    /\ PlanetsOff
    /\ GalaxyOff

\* the caller schedules an item: Clock::insert, overflow taking what insert
\* gives back (LP::commit, src/src/timewarp/lp.rs)
InsertItem(t, kind) ==
    /\ cenv.status = "ok"
    /\ UNCHANGED <<world, planetVars, galaxyVars>>
    /\ cenv.nitems < MaxItems
    /\ t + MaxLate >= clock.step
    /\ LET e == [id |-> cenv.nitems + 1, time |-> t, commit |-> clock.step, kind |-> kind]
           r == ClockInsert(clock, e, cenv.checks)
       IN  /\ clock' = r.clock
           /\ overflow' = IF r.res = "err" THEN OverflowInsert(overflow, e) ELSE overflow
           /\ cenv' = [cenv EXCEPT !.nitems = @ + 1,
                                   !.status = IF r.res = "panic" THEN "panic" ELSE @]
           /\ chist' = [chist EXCEPT
                  !.inserted = IF t >= clock.step /\ r.res # "panic"
                               THEN @ \cup {[item |-> e,
                                             covered |-> ~(cenv.phase = "ticked" /\ t = clock.step)]}
                               ELSE @,
                  !.lost = IF r.res = "err" /\ ~OverflowAccepts(overflow, e)
                           THEN @ \cup {e.id} ELSE @,
                  !.lastInsert = [res |-> r.res, time |-> t, step |-> clock.step,
                                  idxs |-> clock.idxs,
                                  where |-> BucketsOf(r.clock, e.id),
                                  overflowed |-> r.res = "err"]]

RECURSIVE Returned(_, _)
Returned(events, at) ==
    IF events = << >> THEN << >>
    ELSE <<[id |-> Head(events).id, time |-> Head(events).time, at |-> at]>>
         \o Returned(Tail(events), at)

\* the caller takes the current bucket: Clock::tick
Tick ==
    /\ cenv.status = "ok"
    /\ UNCHANGED <<world, planetVars, galaxyVars>>
    /\ cenv.phase = "idle"
    /\ LET r == ClockTick(clock)
       IN  /\ clock' = r.clock
           /\ cenv' = [cenv EXCEPT !.phase = "ticked"]
           /\ chist' = [chist EXCEPT
                  !.returned = @ \o Returned(r.events, clock.step),
                  !.lastTick = [res |-> r.res, at |-> clock.step, events |-> r.events]]
    /\ UNCHANGED overflow

\* the caller advances the clock: Clock::increment, rotate included
Increment ==
    /\ cenv.status = "ok"
    /\ UNCHANGED <<world, planetVars, galaxyVars>>
    /\ cenv.phase = "ticked"
    /\ clock.step < MaxStep
    /\ LET r == ClockIncrement(clock, overflow, cenv.checks)
       IN  /\ clock' = IF r.res = "panic" THEN clock ELSE r.clock
           /\ overflow' = IF r.res = "panic" THEN overflow ELSE r.overflow
           /\ cenv' = [cenv EXCEPT !.phase = "idle",
                                   !.status = IF r.res = "panic" THEN "panic" ELSE @]
           /\ chist' = [chist EXCEPT
                  !.moved = IF r.res = "panic" THEN @
                            ELSE @ + Cardinality(UNION {LevelIds(clock, k) \ LevelIds(r.clock, k) :
                                                          k \in Levels \ {0}})]

\* the caller rolls the clock back to an earlier step: Clock::rollback
Rollback(t) ==
    /\ cenv.status = "ok"
    /\ UNCHANGED <<world, planetVars, galaxyVars>>
    /\ cenv.phase = "idle"
    /\ cenv.nrollbacks < MaxRollbacks
    /\ clock.step <= MaxRollbackStep
    /\ t <= clock.step
    /\ LET r == ClockRollback(clock, overflow, t, cenv.checks)
       IN  /\ clock' = r.clock
           /\ overflow' = r.overflow
           /\ cenv' = [cenv EXCEPT !.nrollbacks = @ + 1,
                                   !.status = IF r.res = "panic" THEN "panic" ELSE @]
           /\ chist' = [chist EXCEPT !.discarded = @ \cup r.gone,
                                     !.lastRollback = r.res]

NextClock ==
    \/ \E t \in 0 .. MaxTime, kind \in Kinds : InsertItem(t, kind)
    \/ Tick
    \/ Increment
    \/ \E t \in 0 .. MaxStep : Rollback(t)

SpecClock == InitClock /\ [][NextClock]_vars

\* the ticks that returned the item with this id
ReturnsOf(id) == {i \in 1 .. Len(chist.returned) : chist.returned[i].id = id}

\* C1: an item inserted with time >= step, and not discarded by a rollback,
\* is returned by tick exactly once, at the tick where step = its time and at
\* no other tick: once the clock has passed its time it has been returned once.
C1_ReturnedExactlyOnceAtItsTime ==
    \A r \in chist.inserted :
        (r.covered /\ r.item.id \notin chist.discarded) =>
            /\ \A i \in ReturnsOf(r.item.id) : chist.returned[i].at = r.item.time
            /\ Cardinality(ReturnsOf(r.item.id)) <= 1
            /\ clock.step > r.item.time => Cardinality(ReturnsOf(r.item.id)) = 1

\* C9: every item tick returns has time = step; a bucket holding an item of
\* the past makes tick fail with TimeTravel and return nothing.
C9_TickReturnsItemsOfCurrentStep ==
    /\ chist.lastTick.res = "Ok" =>
           \A i \in 1 .. Len(chist.lastTick.events) :
               chist.lastTick.events[i].time = chist.lastTick.at
    /\ chist.lastTick.res # "Ok" => chist.lastTick.events = << >>
    /\ \A i \in 1 .. Len(chist.returned) : chist.returned[i].time = chist.returned[i].at

\* a tick has failed with TimeTravel on an item of the past, after earlier
\* ticks returned items
C9_Witness == chist.lastTick.res = "TimeTravel" /\ Len(chist.returned) > 0

\* C11: insert places an item of delay d = time - step in level k, the least
\* k with d < S(k+1), in bucket (cursor_k + (d - S(k)) / SLOTS^k) mod SLOTS;
\* a delay of S(HEIGHT) or more gives the item back to the caller, who puts it
\* in overflow; an item with time < step is rejected: it is put in no bucket
\* and not in overflow.
C11_InsertPlacement ==
    LET li == chist.lastInsert
        d == li.time - li.step
        LevelStart(k) == (Pow(SLOTS, k + 1) - SLOTS) \div (SLOTS - 1)
    IN  li.res # "none" =>
            /\ (d >= 0 /\ d < LevelStart(HEIGHT)) =>
                   /\ li.res = "ok"
                   /\ \E k \in Levels :
                          /\ d < LevelStart(k + 1)
                          /\ \A j \in Levels : j < k => d >= LevelStart(j + 1)
                          /\ li.where = {<<k, (li.idxs[k] + (d - LevelStart(k)) \div Pow(SLOTS, k)) % SLOTS>>}
            /\ d >= LevelStart(HEIGHT) => (li.res = "err" /\ li.where = {} /\ li.overflowed)
            /\ d < 0 => (li.res = "err" /\ li.where = {} /\ ~li.overflowed)

\* C12: the rotation of the top wheel pulls items, earliest first, from the
\* overflow heap and re-inserts them, so an item parked in overflow (its delay
\* was Horizon or more when it was committed) is back in the wheel before the
\* clock reaches its time.
C12_OverflowRefilledBeforeDue ==
    \A x \in overflow :
        (cenv.status = "ok" /\ x.time >= x.commit + Horizon) => x.time > clock.step

\* the items scheduled: all wheel buckets and the overflow set
ScheduledIds == WheelIds(clock) \cup OverflowIds(overflow)
ScheduledCount == WheelCount(clock) + Cardinality(overflow)

\* C10: an increment that rotates leaves the scheduled items as they were:
\* the same items with the same multiplicity, in the wheels or in overflow.
C10_RotatePreservesItems ==
    [][clock'.step = clock.step + 1 =>
          /\ ScheduledIds' = ScheduledIds
          /\ ScheduledCount' = ScheduledCount]_vars

\* a rotation has moved an item out of a higher wheel
C10_Witness == chist.moved > 0 /\ cenv.status = "ok"

(***************************************************************************)
(* The World of src/src/worlds/world.rs over the Clock of                  *)
(* src/src/worlds/clock.rs.  Times are f64 in the code; the model takes    *)
(* timestep = 1.0 and times that are whole numbers of timesteps.           *)
(***************************************************************************)
WTerminal == 4
MaxWorldEvents == 4
Agents == {0, 1}
MaxTimeout == 2

\* `(delta / self.time.timestep) as usize`: a float-to-integer cast saturates,
\* a negative delta gives 0
Futurestep(c, e) ==
    LET delta == e.time - c.time - 1
    IN  IF delta < 0 THEN 0 ELSE delta

\* worlds Clock::insert: the loop from level k on.  The offset is not reduced
\* modulo SLOTS: indexing the wheel past its end panics.
RECURSIVE WInsertLoop(_, _, _)
WInsertLoop(c, e, k) ==
    IF k >= HEIGHT THEN [clock |-> c, res |-> "err"]
    ELSE IF Futurestep(c, e) >= StartIdx(k)
         THEN IF Futurestep(c, e) >= Horizon THEN [clock |-> c, res |-> "err"]
              ELSE LET offset == (Futurestep(c, e) - StartIdx(k)) \div Pow(SLOTS, k) + c.idxs[k]
                   IN  IF offset >= SLOTS THEN [clock |-> c, res |-> "panic"]
                       ELSE [clock |-> Push(c, k, offset, e), res |-> "ok"]
         ELSE WInsertLoop(c, e, k + 1)

WClockInsert(c, e) == WInsertLoop(c, e, 0)

\* the re-insertion loop of worlds Clock::rotate
RECURSIVE WReinsert(_, _, _)
WReinsert(c, ovf, events) ==
    IF events = << >> THEN [clock |-> c, overflow |-> ovf, res |-> "ok"]
    ELSE LET r == WClockInsert(c, Head(events))
         IN  IF r.res = "panic" THEN [clock |-> c, overflow |-> ovf, res |-> "panic"]
             ELSE IF r.res = "err"
             THEN WReinsert(c, OverflowInsert(ovf, Head(events)), Tail(events))
             ELSE WReinsert(r.clock, ovf, Tail(events))

\* worlds Clock::rotate: current_step = step + 1
RECURSIVE WRotateLoop(_, _, _)
WRotateLoop(c, ovf, k) ==
    IF k >= HEIGHT THEN [clock |-> c, overflow |-> ovf, res |-> "ok"]
    ELSE IF (c.step + 1) % Pow(SLOTS, k) = 0
         THEN IF HEIGHT = k THEN [clock |-> c, overflow |-> ovf, res |-> "ok"]
              ELSE LET higher == c.wheels[k][c.idxs[k]]
                       c1 == [c EXCEPT !.wheels[k][c.idxs[k]] = << >>,
                                       !.idxs[k] = (@ + 1) % SLOTS]
                       r == WReinsert(c1, ovf, higher)
                   IN  IF r.res = "panic" THEN r
                       ELSE WRotateLoop(r.clock, r.overflow, k + 1)
         ELSE WRotateLoop(c, ovf, k + 1)

WClockRotate(c, ovf) == WRotateLoop(c, ovf, 1)

\* worlds Clock::tick: takes the bucket, advances the cursor, and only then
\* compares the first event with the time; time and step advance after that
WClockTick(c, ovf) ==
    LET events == c.wheels[0][c.idxs[0]]
        c1 == [c EXCEPT !.wheels[0][c.idxs[0]] = << >>, !.idxs[0] = (@ + 1) % SLOTS]
        c2 == [c1 EXCEPT !.time = @ + 1, !.step = @ + 1]
        rot == IF c2.time % SLOTS = 0 THEN WClockRotate(c2, ovf)
               ELSE [clock |-> c2, overflow |-> ovf, res |-> "ok"]
    IN  IF events # << >> /\ events[1].time < c.time
        THEN [clock |-> c1, overflow |-> ovf, res |-> "TimeTravel", events |-> << >>]
        ELSE IF rot.res = "panic"
        THEN [clock |-> c2, overflow |-> ovf, res |-> "panic", events |-> << >>]
        ELSE IF events = << >>
        THEN [clock |-> rot.clock, overflow |-> rot.overflow, res |-> "NoEvents", events |-> << >>]
        ELSE [clock |-> rot.clock, overflow |-> rot.overflow, res |-> "Ok", events |-> events]

\* World::create
NewWorld ==
    [status |-> "setup",
     clock |-> [wheels |-> EmptyWheels, idxs |-> [k \in Levels |-> 0], time |-> 0, step |-> 0],
     overflow |-> {},
     batch |-> << >>,
     nevents |-> 0,
     processed |-> << >>]

\* World::commit: insert, overflow taking what insert gives back
WorldCommit(w, e) ==
    LET r == WClockInsert(w.clock, e)
    IN  IF r.res = "panic" THEN [w EXCEPT !.status = "panic"]
        ELSE IF r.res = "err"
        THEN [w EXCEPT !.overflow = OverflowInsert(@, e), !.nevents = @ + 1]
        ELSE [w EXCEPT !.clock = r.clock, !.nevents = @ + 1]

ClockOff ==
    /\ clock = NewClock
    /\ overflow = {}
    /\ cenv = [status |-> "off"]
    /\ chist = [inserted |-> {}]

InitWorld ==
    /\ ClockOff
    /\ PlanetsOff
    /\ GalaxyOff
    /\ world = NewWorld

\* World::schedule, called before run
WorldSchedule(t, a) ==
    /\ world.status = "setup"
    /\ world.nevents < MaxWorldEvents
    /\ t >= world.clock.time
    /\ t <= WTerminal
    /\ world' = WorldCommit(world, [time |-> t, agent |-> a])
    /\ UNCHANGED <<clockVars, planetVars, galaxyVars>>

\* run is called
WorldStart ==
    /\ world.status = "setup"
    /\ world' = [world EXCEPT !.status = "running"]
    /\ UNCHANGED <<clockVars, planetVars, galaxyVars>>

\* one iteration of the loop of World::run up to the tick: the terminal test,
\* then tick; a batch tick returns is processed event by event
WorldTick ==
    /\ world.status = "running"
    /\ world.batch = << >>
    /\ IF world.clock.time + 1 > WTerminal
       THEN world' = [world EXCEPT !.status = "done"]
       ELSE LET r == WClockTick(world.clock, world.overflow)
            IN  world' = [world EXCEPT
                    !.clock = r.clock,
                    !.overflow = r.overflow,
                    !.batch = r.events,
                    !.status = IF r.res = "panic" THEN "panic" ELSE @]
    /\ UNCHANGED <<clockVars, planetVars, galaxyVars>>

\* the actions an agent's step can yield
AgentActions ==
    [type : {"Timeout"}, time : 0 .. MaxTimeout, idx : {0}]
    \cup [type : {"Schedule"}, time : 0 .. WTerminal, idx : {0}]
    \cup [type : {"Trigger"}, time : 0 .. WTerminal, idx : Agents]
    \cup [type : {"Wait", "Break"}, time : {0}, idx : {0}]

\* the body of `for event in events`: the agent of the first event of the
\* batch is stepped and the action it yields is interpreted
WorldProcess(act) ==
    /\ world.status = "running"
    /\ world.batch # << >>
    /\ act.type \in {"Timeout", "Schedule", "Trigger"} => world.nevents < MaxWorldEvents
    /\ LET event == Head(world.batch)
           now == world.clock.time
           w0 == [world EXCEPT !.batch = Tail(@)]
           w1 == [w0 EXCEPT !.processed = Append(@, event.time)]
       IN  IF event.time > WTerminal THEN world' = [world EXCEPT !.batch = << >>]
           ELSE CASE act.type = "Timeout" ->
                       IF now + act.time > WTerminal THEN world' = w1
                       ELSE world' = WorldCommit(w1, [time |-> now + act.time, agent |-> event.agent])
                  [] act.type = "Schedule" ->
                       world' = WorldCommit(w1, [time |-> act.time, agent |-> event.agent])
                  [] act.type = "Trigger" ->
                       world' = WorldCommit(w1, [time |-> act.time, agent |-> act.idx])
                  [] act.type = "Wait" -> world' = w1
                  [] act.type = "Break" -> world' = [w1 EXCEPT !.batch = << >>]
    /\ UNCHANGED <<clockVars, planetVars, galaxyVars>>

NextWorld ==
    \/ \E t \in 0 .. WTerminal, a \in Agents : WorldSchedule(t, a)
    \/ WorldStart
    \/ WorldTick
    \/ \E act \in AgentActions : WorldProcess(act)

SpecWorld == InitWorld /\ [][NextWorld]_vars

\* C8: the events a World processes, in the order its agents are stepped, are
\* non-decreasing in event time, whatever actions the agents yield.
C8_ProcessedInTimeOrder ==
    \A i \in 1 .. Len(world.processed) : \A j \in 1 .. Len(world.processed) :
        i < j => world.processed[i] <= world.processed[j]

(***************************************************************************)
(* The Planet of src/src/mt/hybrid/planet.rs (counter variant): an event   *)
(* wheel and a message wheel, an anti-message journal, and the atomics it  *)
(* shares with the coordinator.  timestep = 1.0.  Each Planet has one      *)
(* agent, agent 0, which yields Timeout(1) whenever it is stepped.         *)
(***************************************************************************)
NumWorlds == 2
ThrottleHorizon == 2
CheckpointFrequency == 4
PTerminal == 4
MaxSends == 3
MaxDelay == 2

Worlds == 0 .. (NumWorlds - 1)

\* AntiMsg::annihilate: sent, received, from and to are equal.  from and to
\* are agent ids, and every Planet's agent is agent 0.
AntiMatches(anti, msg) == anti.sent = msg.commit /\ anti.recv = msg.time

RECURSIVE ReverseSeq(_)
ReverseSeq(q) == IF q = << >> THEN << >> ELSE ReverseSeq(Tail(q)) \o <<Head(q)>>

\* the level loop of Planet::annihilate, from level k on: the bucket is found
\* from the delay counted from the wheel's current step, every matching Msg
\* of that bucket is dropped and the rest is left in pop order
RECURSIVE AnnihilateLoop(_, _, _, _)
AnnihilateLoop(c, anti, diff, k) ==
    IF k >= HEIGHT THEN [clock |-> c, found |-> FALSE]
    ELSE IF diff >= StartIdx(k)
         THEN IF diff >= Horizon THEN [clock |-> c, found |-> FALSE]
              ELSE IF diff > EndIdx(k) THEN AnnihilateLoop(c, anti, diff, k + 1)
              ELSE LET offset == Offset(c, k, diff)
                       remaining == SelectSeq(ReverseSeq(c.wheels[k][offset]),
                                              LAMBDA m : ~AntiMatches(anti, m))
                   IN  [clock |-> [c EXCEPT !.wheels[k][offset] = remaining], found |-> TRUE]
         ELSE AnnihilateLoop(c, anti, diff, k + 1)

\* Planet::annihilate: when the loop has not returned, the overflow heap is
\* searched; an AntiMsg that matches nothing is forgotten.  The subtraction
\* `time - schedule.time` is never negative: poll rolls back to the AntiMsg's
\* time first, and rollback reclaims entries stamped after the rollback time.
Annihilate(pl, anti) ==
    LET r == AnnihilateLoop(pl.ms, anti, WrapSub(anti.recv, pl.ms.step), 0)
    IN  IF r.found THEN [pl EXCEPT !.ms = r.clock]
        ELSE [pl EXCEPT !.mso = {m \in @ : ~AntiMatches(anti, m)}]

\* the Msg a Mail carries, as the message wheel holds it
MsgOf(mail) ==
    [id |-> mail.id, time |-> mail.recv, commit |-> mail.sent, kind |-> "Message",
     who |-> mail.from_world]

\* a Planet whose thread has panicked
Dead(pl) == [pl EXCEPT !.status = "panic"]

\* Planet::commit_mail
CommitMail(pl, msg, checks) ==
    LET r == ClockInsert(pl.ms, msg, checks)
    IN  IF r.res = "panic" THEN Dead(pl)
        ELSE IF r.res = "ok" THEN [pl EXCEPT !.ms = r.clock]
        ELSE [pl EXCEPT !.mso = @ \cup {msg}]

\* Planet::commit
CommitEvent(pl, e, checks) ==
    LET r == ClockInsert(pl.ev, e, checks)
    IN  IF r.res = "panic" THEN Dead(pl)
        ELSE IF r.res = "ok" THEN [pl EXCEPT !.ev = r.clock]
        ELSE [pl EXCEPT !.evo = @ \cup {e}]

\* Planet::now
Now(pl) == pl.ev.step

\* the loop over the reclaimed anti-messages in Planet::rollback: one for this
\* world is annihilated here, the others go to the messenger
RECURSIVE SendAntis(_, _, _, _)
SendAntis(pl, w, antis, out) ==
    IF antis = << >> THEN [planet |-> pl, out |-> out]
    ELSE IF Head(antis).to_world = w
         THEN SendAntis(Annihilate(pl, Head(antis)), w, Tail(antis), out)
         ELSE SendAntis(pl, w, Tail(antis), Append(out, Head(antis)))

\* the journal entries Planet::rollback reclaims: those stamped after `time`
Reclaimed(pl, time) == SelectSeq(pl.anti, LAMBDA a : a.stamp > time)

\* the end of Planet::rollback: the event wheel has been rolled back (ev) and
\* the LVT is stored.  The Result of Clock::rollback is not looked at.
RollbackEvents(w, time, lvt, antis, sent, ev) ==
    LET ids == {antis[i].mail.id : i \in 1 .. Len(antis)}
        own == {antis[i].mail.id : i \in {j \in 1 .. Len(antis) : antis[j].mail.to_world = w}}
    IN  IF ev.res = "panic"
        THEN [planet |-> Dead(sent.planet), out |-> sent.out, retracted |-> ids,
              own |-> own, lvt |-> lvt]
        ELSE [planet |-> [sent.planet EXCEPT !.ev = ev.clock, !.evo = ev.overflow],
              out |-> sent.out, retracted |-> ids, own |-> own, lvt |-> time]

\* the middle of Planet::rollback: the reclaimed anti-messages have been sent
RollbackAntis(w, time, lvt, checks, antis, sent) ==
    RollbackEvents(w, time, lvt, antis, sent,
                   ClockRollback(sent.planet.ev, sent.planet.evo, time, checks))

\* Planet::rollback after the message wheel has been rolled back (ms)
RollbackMessages(pl, w, time, lvt, checks, ms) ==
    IF ms.res = "panic"
    THEN [planet |-> Dead(pl), out |-> << >>, retracted |-> {}, own |-> {}, lvt |-> lvt]
    ELSE RollbackAntis(w, time, lvt, checks, Reclaimed(pl, time),
                       SendAntis([pl EXCEPT !.ms = ms.clock, !.mso = ms.overflow,
                                            !.anti = SelectSeq(@, LAMBDA a : a.stamp <= time)],
                                 w,
                                 [i \in 1 .. Len(Reclaimed(pl, time)) |->
                                     Reclaimed(pl, time)[i].mail],
                                 << >>))

\* Planet::rollback, for time <= now: the message wheel is rolled back, the
\* anti-messages stamped after `time` are reclaimed and sent, the event wheel
\* is rolled back, the LVT is stored.  out is the mail handed to the messenger.
PlanetRollback(pl, w, time, lvt, checks) ==
    RollbackMessages(pl, w, time, lvt, checks, ClockRollback(pl.ms, pl.mso, time, checks))

\* the match on the opened letter in poll_interplanetary_messenger
OpenLetter(pl, mail, checks) ==
    IF pl.status = "panic" THEN pl
    ELSE IF mail.kind = "Msg" THEN CommitMail(pl, MsgOf(mail), checks)
    ELSE Annihilate(pl, mail)

\* one mail of the loop of poll_interplanetary_messenger, rb being the outcome
\* of the rollback it may have caused
PollMail(acc, w, mail, late, rb, checks) ==
    [planet |-> OpenLetter(rb.planet, mail, checks),
     out |-> acc.out \o rb.out,
     retracted |-> acc.retracted \cup rb.retracted,
     own |-> acc.own \cup rb.own,
     rollbacks |-> IF late /\ rb.planet.status # "panic"
                   THEN Append(acc.rollbacks, mail.recv) ELSE acc.rollbacks,
     lvt |-> rb.lvt,
     counter |-> acc.counter + 1]

\* the loop of Planet::poll_interplanetary_messenger over the polled mail.
\* acc carries the Planet, the mail sent by rollbacks, the ids retracted (own:
\* those annihilated in this world), the rollback times and the number of
\* mails counted.
RECURSIVE PollLoop(_, _, _, _)
PollLoop(acc, w, mails, checks) ==
    IF mails = << >> \/ acc.planet.status = "panic" THEN acc
    ELSE PollLoop(PollMail(acc, w, Head(mails), Head(mails).recv < Now(acc.planet),
                           IF Head(mails).recv < Now(acc.planet)
                           THEN PlanetRollback(acc.planet, w, Head(mails).recv, acc.lvt, checks)
                           ELSE [planet |-> acc.planet, out |-> << >>, retracted |-> {},
                                 own |-> {}, lvt |-> acc.lvt],
                           checks),
                  w, Tail(mails), checks)

PollInterplanetaryMessenger(pl, w, lvt, mails, checks) ==
    PollLoop([planet |-> pl, out |-> << >>, retracted |-> {}, own |-> {},
              rollbacks |-> << >>, lvt |-> lvt, counter |-> 0], w, mails, checks)

\* Planet::check_time_validity
TimeValidity(pl, lvt, gvt, terminal) ==
    IF pl.ms.step # pl.ev.step /\ pl.ms.step # lvt THEN "ClockSyncIssue"
    ELSE IF terminal <= lvt THEN "PastTerminal"
    ELSE IF gvt >= terminal THEN "PastTerminal"
    ELSE "ok"

CheckTimeValidity(pl, lvt, gvt) == TimeValidity(pl, lvt, gvt, PTerminal)

\* what the agent does besides yielding Timeout(1) when it is stepped: the
\* world it sends a Msg to, if any, and the delay of that Msg
NoSend == NumWorlds
Idle == [to |-> NoSend, delay |-> 1]
AgentBehaviours == {Idle} \cup [to : Worlds, delay : 1 .. MaxDelay]

\* ids: an Event is known by its world and time, a Mail by its world of
\* origin and the number of sends before it
EventId(w, time) == 100 * (w + 1) + time
MailId(w, n) == 10 * (w + 1) + n

\* a send_mail that does not journal the AntiMsg
SendMailUnjournalled(acc, w, beh, now) ==
    LET mail == [kind |-> "Msg", id |-> MailId(w, acc.sent), sent |-> now,
                 recv |-> now + beh.delay, from_world |-> w, to_world |-> beh.to]
    IN  [acc EXCEPT !.out = Append(@, mail), !.sent = @ + 1]

\* a world id that no Planet has
NoWorld == NumWorlds + 1

\* a send_mail that counts the Msg the messenger did not take
SendMailCountingFailures(acc, w, beh, now) ==
    IF beh.to \notin Worlds THEN [acc EXCEPT !.sent = @ + 1, !.errors = @ + 1]
    ELSE SendMailUnjournalled(acc, w, beh, now)

\* PlanetContext::send_mail: the Msg goes to the messenger, the send counter
\* is incremented, the AntiMsg is journalled with the context's time.  When
\* the messenger does not take the Msg (a world that does not exist) `?`
\* returns the error to the agent before the counter and the journal.
SendMail(acc, w, beh, now) ==
    IF beh.to \notin Worlds THEN [acc EXCEPT !.errors = @ + 1] ELSE
    LET mail == [kind |-> "Msg", id |-> MailId(w, acc.sent), sent |-> now,
                 recv |-> now + beh.delay, from_world |-> w, to_world |-> beh.to]
    IN  [acc EXCEPT !.out = Append(@, mail),
                    !.sent = @ + 1,
                    !.planet.anti = Append(@, [mail |-> [mail EXCEPT !.kind = "AntiMsg"],
                                               stamp |-> now])]

\* the loop over the events of a tick in Planet::step: the agent is stepped
\* (it sends at most one Msg per step of the Planet) and its Timeout(1) is
\* committed unless it is past terminal
RECURSIVE ProcessEvents(_, _, _, _, _, _)
ProcessEvents(acc, w, events, beh, sent0, checks) ==
    IF events = << >> \/ acc.planet.status = "panic" THEN acc
    ELSE LET event == Head(events)
             now == Now(acc.planet)
             a1 == IF beh.to # NoSend /\ acc.sent = sent0
                   THEN SendMail(acc, w, beh, event.time) ELSE acc
             a2 == [a1 EXCEPT !.done = @ \cup {[id |-> event.id, at |-> event.time,
                                                commit |-> event.commit, kind |-> "Event"]},
                              !.again = @ \cup {x \in a1.done : x.id = event.id}]
             a3 == IF now + 1 <= PTerminal
                   THEN [a2 EXCEPT !.planet =
                            CommitEvent(@, [id |-> EventId(w, now + 1), time |-> now + 1,
                                            commit |-> now, kind |-> "Event", who |-> event.who],
                                        checks)]
                   ELSE a2
         IN  ProcessEvents(a3, w, Tail(events), beh, sent0, checks)

\* Planet::increment, ev and ms being the incremented wheels
Incremented(pl, ev, ms) ==
    IF ev.res = "panic" \/ ms.res = "panic" THEN Dead(pl)
    ELSE [pl EXCEPT !.ev = ev.clock, !.evo = ev.overflow,
                    !.ms = ms.clock, !.mso = ms.overflow]

\* an increment that leaves the message wheel where it is
IncrementEventsOnly(pl, checks) ==
    Incremented(pl, ClockIncrement(pl.ev, pl.evo, checks),
                [clock |-> pl.ms, overflow |-> pl.mso, res |-> "ok"])

PlanetIncrement(pl, checks) ==
    Incremented(pl, ClockIncrement(pl.ev, pl.evo, checks),
                ClockIncrement(pl.ms, pl.mso, checks))

\* the Msgs of a tick, as the history records them
ReadOf(msgs) ==
    {[id |-> msgs[i].id, at |-> msgs[i].time, commit |-> msgs[i].commit, kind |-> "Message"] :
        i \in 1 .. Len(msgs)}

\* the end of Planet::step: increment
StepEnd(acc, checks) ==
    IF acc.planet.status = "panic" THEN acc
    ELSE [acc EXCEPT !.planet = PlanetIncrement(@, checks)]

\* the ticks of Planet::step done (mt, et), its loop over the events
StepEvents(pl, w, beh, sent0, checks, mt, et) ==
    StepEnd(ProcessEvents([planet |-> [pl EXCEPT !.ms = mt.clock, !.ev = et.clock],
                           out |-> << >>, sent |-> sent0, done |-> ReadOf(mt.events),
                           again |-> {}, errors |-> 0],
                          w, et.events, beh, sent0, checks),
            checks)

\* Planet::step after check_time_validity: the message tick, the event tick,
\* the loop over the events, the increment.  A tick that fails is passed over.
PlanetStep(pl, w, beh, sent0, checks) ==
    StepEvents(pl, w, beh, sent0, checks, ClockTick(pl.ms), ClockTick(pl.ev))

\* a throttle gate one step late
ThrottledLate(gvt, now) == gvt + ThrottleHorizon + 1 < now

\* the gate of Planet::run on the throttle horizon
Throttled(gvt, now) == gvt + ThrottleHorizon < now

\* a checkpoint gate one step late
AtCheckpointLate(now, checkpoint) == now = checkpoint + 1 /\ now # PTerminal

\* the gate of Planet::run on the checkpoint
AtCheckpoint(now, checkpoint) == now = checkpoint /\ now # PTerminal

\* Planet::from_config followed by schedule(0, 0)
NewPlanet(w) ==
    LET first == [id |-> EventId(w, 0), time |-> 0, commit |-> 0, kind |-> "Event", who |-> 0]
    IN  [ev |-> ClockInsert(NewClock, first, FALSE).clock, evo |-> {},
         ms |-> NewClock, mso |-> {},
         anti |-> << >>,
         status |-> "run"]

\* Planets created from the registry, each with schedule(0, 0) called
InitPlanets ==
    /\ ClockOff
    /\ world = [status |-> "off"]
    /\ GalaxyOff
    /\ planet = [w \in Worlds |-> NewPlanet(w)]
    /\ net = [pool |-> << >>,
              inbox |-> [w \in Worlds |-> << >>],
              gvt |-> 0,
              lvt |-> [w \in Worlds |-> 0],
              checkpoint |-> CheckpointFrequency,
              sends |-> [w \in Worlds |-> 0],
              recvs |-> [w \in Worlds |-> 0],
              daemon |-> "run"]
    /\ phist = [log |-> [w \in Worlds |-> {}],
                owed |-> [w \in Worlds |-> {}],
                twice |-> {},
                retracted |-> {},
                arrived |-> [w \in Worlds |-> {}]]

RECURSIVE SumOver(_, _)
SumOver(f, S) ==
    IF S = {} THEN 0
    ELSE LET x == CHOOSE y \in S : TRUE IN f[x] + SumOver(f, S \ {x})

\* the history after the rollbacks of a poll: what was processed at or after
\* the rollback time is no longer part of the run
RECURSIVE UndoLog(_, _)
UndoLog(log, times) ==
    IF times = << >> THEN log
    ELSE UndoLog({x \in log : x.at < Head(times)}, Tail(times))

\* what the rollbacks of a poll undid and did not make anti-causal: processed
\* at or after the rollback time, committed before it
RECURSIVE Owed(_, _, _)
Owed(owed, log, times) ==
    IF times = << >> THEN owed
    ELSE Owed({x \in owed : x.commit < Head(times)}
                  \cup {x \in log : x.at >= Head(times) /\ x.commit < Head(times)},
              {x \in log : x.at < Head(times)}, Tail(times))

\* the behaviours that differ in effect: the agent runs only when the event
\* tick returns events, and at most MaxSends Msgs are sent in a run
StepChoices(pl) ==
    IF ClockTick(pl.ev).res # "Ok" \/ SumOver(net.sends, Worlds) >= MaxSends
    THEN {Idle} ELSE AgentBehaviours

\* the end of an iteration of Planet::run that stepped: st is the outcome of
\* step, which stores the LVT in increment
Stepped(w, net1, h1, st) ==
    /\ planet' = [planet EXCEPT ![w] = st.planet]
    /\ net' = [net1 EXCEPT !.pool = @ \o st.out,
                           !.sends[w] = st.sent,
                           !.lvt[w] = IF st.planet.status = "panic" THEN @
                                      ELSE Now(st.planet)]
    /\ phist' = [h1 EXCEPT !.twice = @ \cup {x.id : x \in st.again}
                                       \cup {x.id : x \in h1.log[w] \cap st.done},
                           !.log[w] = @ \cup st.done]

\* the gates of Planet::run and step, the poll being done: pl1 is the Planet,
\* net1 the shared state and h1 the history after the poll
Gates(w, now0, pl1, net1, h1, checks) ==
    IF pl1.status = "panic"
          \/ AtCheckpoint(now0, net.checkpoint) \/ Throttled(net1.gvt, Now(pl1))
    THEN /\ planet' = [planet EXCEPT ![w] = pl1]
         /\ net' = net1
         /\ phist' = h1
    ELSE IF CheckTimeValidity(pl1, net1.lvt[w], net1.gvt) # "ok"
    THEN /\ planet' = [planet EXCEPT ![w] = [pl1 EXCEPT !.status =
                           IF CheckTimeValidity(pl1, net1.lvt[w], net1.gvt) = "PastTerminal"
                           THEN "done" ELSE "error"]]
         /\ net' = net1
         /\ phist' = h1
    ELSE \E beh \in StepChoices(pl1) :
            Stepped(w, net1, h1, PlanetStep(pl1, w, beh, net.sends[w], checks))

\* the poll of an iteration of Planet::run done: what it leaves in the shared
\* state and in the history.  A panic ends the thread before recv_counter is
\* updated.
Polled(w, now0, polled, checks) ==
    Gates(w, now0, polled.planet,
          [net EXCEPT !.inbox[w] = << >>,
                      !.pool = @ \o polled.out,
                      !.lvt[w] = polled.lvt,
                      !.recvs[w] = IF polled.planet.status = "panic" THEN @
                                   ELSE @ + polled.counter],
          [phist EXCEPT
              !.log[w] = UndoLog(@, polled.rollbacks),
              !.owed[w] = Owed(@, phist.log[w], polled.rollbacks),
              !.retracted = @ \cup polled.retracted,
              !.arrived[w] = @ \cup {[kind |-> net.inbox[w][i].kind,
                                      id |-> net.inbox[w][i].id,
                                      recv |-> net.inbox[w][i].recv] :
                                        i \in 1 .. Len(net.inbox[w])}
                               \cup {[kind |-> "AntiMsg", id |-> a.mail.id,
                                      recv |-> a.mail.recv] :
                                        a \in {planet[w].anti[j] :
                                                 j \in {i \in 1 .. Len(planet[w].anti) :
                                                          planet[w].anti[i].mail.id
                                                              \in polled.own}}}],
          checks)

\* an item of the wheel is behind the wheel's step: Clock::insert subtracts
\* the step from the time of the item it is given back by rollback or rotate
Behind(c) ==
    \E k \in Levels : \E s \in Slots : \E i \in 1 .. Len(c.wheels[k][s]) :
        \/ c.wheels[k][s][i].time < c.step
        \/ k > 0 /\ c.wheels[k][s][i].time <= c.step

\* the builds that differ for a Planet: with overflow checks a u64
\* subtraction that underflows panics, without them it wraps
Builds(pl) == IF Behind(pl.ms) \/ Behind(pl.ev) THEN BOOLEAN ELSE {FALSE}

\* one iteration of the loop of Planet::run: poll, the checkpoint gate, the
\* throttle gate, step
PlanetRun(w) ==
    /\ planet[w].status = "run"
    /\ \E checks \in Builds(planet[w]) :
          Polled(w, Now(planet[w]),
                 PollInterplanetaryMessenger(planet[w], w, net.lvt[w], net.inbox[w], checks),
                 checks)
    /\ UNCHANGED <<clockVars, world, galaxyVars>>

\* the smallest LVT
MinLvt(lvt) == CHOOSE t \in {lvt[w] : w \in Worlds} : \A w \in Worlds : t <= lvt[w]

\* one iteration of the coordinator's gvt_daemon loop: deliver the pending
\* mail; when sends - recvs > 0 mail is in flight and GVT stays; else publish
\* min(LVT) if it is not below GVT; exit when every LVT is terminal; move the
\* checkpoint when GVT has crossed it
GvtDaemon ==
    /\ net.daemon = "run"
    /\ LET inbox1 == [w \in Worlds |->
                         net.inbox[w] \o SelectSeq(net.pool, LAMBDA m : m.to_world = w)]
           sends == SumOver(net.sends, Worlds)
           recvs == SumOver(net.recvs, Worlds)
           candidate == MinLvt(net.lvt)
           gvt1 == IF sends - recvs > 0 THEN net.gvt
                   ELSE IF candidate >= net.gvt THEN candidate ELSE net.gvt
       IN  net' = [net EXCEPT
                      !.pool = << >>,
                      !.inbox = inbox1,
                      !.gvt = gvt1,
                      !.daemon = IF \A w \in Worlds : net.lvt[w] >= PTerminal THEN "done" ELSE @,
                      !.checkpoint = IF gvt1 >= @ THEN gvt1 + CheckpointFrequency ELSE @]
    /\ UNCHANGED <<clockVars, world, planet, phist, galaxyVars>>

NextPlanets ==
    \/ \E w \in Worlds : PlanetRun(w)
    \/ GvtDaemon

SpecPlanets == InitPlanets /\ [][NextPlanets]_vars

\* the Planets run with no coordinator thread, as in test_gvt_throttling:
\* GVT stays at the 0 it is created with and no mail is delivered
NextThrottled == \E w \in Worlds : PlanetRun(w)

SpecThrottled == InitPlanets /\ [][NextThrottled]_vars

C4_LvtNotBelowGvt ==
    \A w \in Worlds : net.lvt[w] >= net.gvt

\* the mail a world has yet to poll
InFlightTo(w) ==
    {net.pool[i].id : i \in {j \in 1 .. Len(net.pool) : net.pool[j].to_world = w}}
    \cup {net.inbox[w][i].id : i \in 1 .. Len(net.inbox[w])}

\* what a Planet's message wheel and overflow hold
PendingMsgs(w) == WheelIds(planet[w].ms) \cup OverflowIds(planet[w].mso)

\* what the history of world w holds of the item with this id
LogIds(w) == {x.id : x \in phist.log[w]}

\* C5: a Msg that reached its world and was not retracted is read exactly
\* once in that world's history, once the world is past the receive time and
\* has no mail left to poll
C5_MsgReadExactlyOnce ==
    \A w \in Worlds : \A a \in phist.arrived[w] :
        (/\ a.kind = "Msg"
         /\ a.id \notin phist.retracted
         /\ planet[w].status # "panic"
         /\ InFlightTo(w) = {}
         /\ net.lvt[w] > a.recv)
            => a.id \in LogIds(w) /\ a.id \notin phist.twice

\* C6: every event and message a Planet processed at or after the time it
\* rolled back to, and that the rollback does not make anti-causal, is
\* processed again when the Planet has re-executed past its time
C6_RolledBackWorkIsRedone ==
    \A w \in Worlds : \A x \in phist.owed[w] :
        (/\ x.id \notin phist.retracted
         /\ planet[w].status # "panic"
         /\ InFlightTo(w) = {}
         /\ net.lvt[w] > x.at)
            => x.id \in LogIds(w)

\* C7: once a world has handled both a Msg and its AntiMsg, in either order,
\* the Msg is neither waiting in the message wheel nor part of the world's
\* history
C7_RetractedMsgNotDelivered ==
    \A w \in Worlds : \A a \in phist.arrived[w] :
        (/\ a.kind = "AntiMsg"
         /\ planet[w].status # "panic"
         /\ [a EXCEPT !.kind = "Msg"] \in phist.arrived[w])
            => a.id \notin PendingMsgs(w) /\ a.id \notin LogIds(w)


\* no mail in flight to any world and all LVTs equal
Quiescent ==
    /\ net.pool = << >>
    /\ \A w \in Worlds : net.inbox[w] = << >>
    /\ \A w, v \in Worlds : net.lvt[w] = net.lvt[v]

Aligned(pl, lvt) ==
    pl.status # "panic" => (pl.ev.step = pl.ms.step /\ pl.ev.step = lvt)

\* the next iteration of Planet::run of world w has no mail to poll and passes
\* both gates and check_time_validity: it is a call of step() that succeeds
StepsNext(w) ==
    /\ planet[w].status = "run"
    /\ net.inbox[w] = << >>
    /\ ~AtCheckpoint(Now(planet[w]), net.checkpoint)
    /\ ~Throttled(net.gvt, Now(planet[w]))
    /\ CheckTimeValidity(planet[w], net.lvt[w], net.gvt) = "ok"

JournalOf(pl, id) == {i \in 1 .. Len(pl.anti) : pl.anti[i].mail.id = id}

\* the Msgs world w has handed to the messenger in this iteration of run
NewMsgs(w) ==
    {net'.pool[i] : i \in {j \in 1 .. Len(net'.pool) :
                             /\ net'.pool[j].kind = "Msg"
                             /\ net'.pool[j].from_world = w
                             /\ \A n \in 0 .. net.sends[w] - 1 :
                                    net'.pool[j].id # MailId(w, n)}}

Blocked(w) ==
    /\ planet[w].status = "run"
    /\ net.daemon = "done"
    /\ net.inbox[w] = << >>
    /\ Throttled(net.gvt, Now(planet[w]))

\* every thread of the run is scheduled again and again
SpecPlanetsFair ==
    /\ SpecPlanets
    /\ \A w \in Worlds : WF_vars(PlanetRun(w))
    /\ WF_vars(GvtDaemon)

\* C19: under fair scheduling of all threads and any finite workload a
\* parallel run terminates: every Planet's run loop observes PastTerminal and
\* exits, the coordinator exits once all worlds report terminal, and no Planet
\* remains blocked for ever at the checkpoint or throttle gate.  Stated as what
\* termination rules out: a Planet that can only spin at a gate.
C19_NoPlanetBlockedForEver == \A w \in Worlds : ~Blocked(w)

(***************************************************************************)
(* Planets whose agents send nothing and yield Timeout(0) or Timeout(1).   *)
(***************************************************************************)
MaxYield == 1

\* the loop over the events of a tick in Planet::step for an agent that
\* yields Timeout(d)
RECURSIVE YieldEvents(_, _, _, _, _)
YieldEvents(pl, w, events, d, checks) ==
    IF events = << >> \/ pl.status = "panic" THEN pl
    ELSE IF Now(pl) + d > PTerminal THEN YieldEvents(pl, w, Tail(events), d, checks)
    ELSE YieldEvents(CommitEvent(pl, [id |-> EventId(w, Now(pl) + d), time |-> Now(pl) + d,
                                      commit |-> Now(pl), kind |-> "Event",
                                      who |-> Head(events).who], checks),
                     w, Tail(events), d, checks)

\* the end of Planet::step: increment
Yielded(pl, checks) == IF pl.status = "panic" THEN pl ELSE PlanetIncrement(pl, checks)

\* Planet::step after check_time_validity: both ticks, a failed one passed
\* over by `if let Ok(..)`, the loop over the events, increment
YieldStep(pl, w, d, checks) ==
    Yielded(YieldEvents([pl EXCEPT !.ms = ClockTick(pl.ms).clock, !.ev = ClockTick(pl.ev).clock],
                        w, ClockTick(pl.ev).events, d, checks),
            checks)

\* the Planet and its published LVT after step
AfterYield(w, pl) ==
    /\ planet' = [planet EXCEPT ![w] = pl]
    /\ net' = [net EXCEPT !.lvt[w] = IF pl.status = "panic" THEN @ ELSE Now(pl)]

\* one iteration of the loop of Planet::run with no mail to poll
PlanetRunYielding(w) ==
    /\ planet[w].status = "run"
    /\ net.inbox[w] = << >>
    /\ IF AtCheckpoint(Now(planet[w]), net.checkpoint) \/ Throttled(net.gvt, Now(planet[w]))
       THEN UNCHANGED <<planet, net>>
       ELSE IF CheckTimeValidity(planet[w], net.lvt[w], net.gvt) # "ok"
       THEN /\ planet' = [planet EXCEPT ![w].status =
                              IF CheckTimeValidity(planet[w], net.lvt[w], net.gvt) = "PastTerminal"
                              THEN "done" ELSE "error"]
            /\ UNCHANGED net
       ELSE \E d \in 0 .. MaxYield : \E checks \in Builds(planet[w]) :
               AfterYield(w, YieldStep(planet[w], w, d, checks))
    /\ UNCHANGED <<clockVars, world, phist, galaxyVars>>

NextYield ==
    \/ \E w \in Worlds : PlanetRunYielding(w)
    \/ GvtDaemon

SpecYield == InitPlanets /\ [][NextYield]_vars

\* C20: Planet::run returns Ok exactly when its loop ends on PastTerminal;
\* every TimeTravel, ClockSyncIssue or transport error that arises during a
\* poll or a step, a TimeTravel found by a wheel's tick() included, ends the
\* run loop and is returned to the join site rather than being swallowed.
C20_RunReturnsEveryError ==
    [][\A w \in Worlds :
          /\ (planet[w].status = "run" /\ net.inbox[w] = << >>
                  /\ planet'[w].status = "done") =>
                 CheckTimeValidity(planet[w], net.lvt[w], net.gvt) = "PastTerminal"
          /\ (StepsNext(w) /\ planet'[w] # planet[w]
                  /\ \/ ClockTick(planet[w].ms).res = "TimeTravel"
                     \/ ClockTick(planet[w].ev).res = "TimeTravel") =>
                 planet'[w].status = "error"]_vars

(***************************************************************************)
(* Mail between Planets with several agents.  World 1's agent sends Msgs   *)
(* to world 0, which has NumAgents agents; a Msg is addressed to one agent *)
(* or to all (to = None).  The `to` field of a Msg is kept by its id in    *)
(* phist.to.  phist.reads[w] is the sequence of read_message calls of      *)
(* world w that no later rollback has undone, phist.rolled[w] whether      *)
(* world w has rolled back, phist.arrived[w] the mail it has polled.       *)
(***************************************************************************)
NumAgents == 2
MaxMail == 2
MaxMailDelay == 3
Sender == 1

\* Msg.to = None
NoAgent == NumAgents

\* a broadcast that reaches the agents from the last to the first
AddresseesDescending(to) ==
    IF to = NoAgent THEN [i \in 1 .. NumAgents |-> NumAgents - i] ELSE <<to>>

\* the agents a Msg is handed to in Planet::step, in the order of the calls
\* of read_message
Addressees(to) ==
    IF to = NoAgent THEN [i \in 1 .. NumAgents |-> i - 1] ELSE <<to>>

\* a loop that hands over the first Msg of the tick only
DeliveriesFirstOnly(msgs, to, step) ==
    IF msgs = << >> THEN << >>
    ELSE [i \in 1 .. Len(Addressees(to[Head(msgs).id])) |->
             [id |-> Head(msgs).id, recv |-> Head(msgs).time,
              agent |-> Addressees(to[Head(msgs).id])[i], step |-> step]]

\* the loop over the Msgs of a tick in Planet::step: the read_message calls
\* it makes at this step
RECURSIVE Deliveries(_, _, _)
Deliveries(msgs, to, step) ==
    IF msgs = << >> THEN << >>
    ELSE [i \in 1 .. Len(Addressees(to[Head(msgs).id])) |->
             [id |-> Head(msgs).id, recv |-> Head(msgs).time,
              agent |-> Addressees(to[Head(msgs).id])[i], step |-> step]]
         \o Deliveries(Tail(msgs), to, step)

InitMail ==
    /\ ClockOff
    /\ world = [status |-> "off"]
    /\ GalaxyOff
    /\ planet = [w \in Worlds |-> NewPlanet(w)]
    /\ net = [pool |-> << >>,
              inbox |-> [w \in Worlds |-> << >>],
              gvt |-> 0,
              lvt |-> [w \in Worlds |-> 0],
              checkpoint |-> CheckpointFrequency,
              sends |-> [w \in Worlds |-> 0],
              recvs |-> [w \in Worlds |-> 0],
              daemon |-> "run"]
    /\ phist = [reads |-> [w \in Worlds |-> << >>],
                rolled |-> [w \in Worlds |-> FALSE],
                arrived |-> [w \in Worlds |-> << >>],
                to |-> << >>,
                held |-> [w \in Worlds |-> FALSE]]

\* what the agent of world w may do when it is stepped: the Sender sends a
\* Msg to world 0 or not, the others send nothing
MailChoices(w, pl) ==
    IF w # Sender \/ ClockTick(pl.ev).res # "Ok" \/ net.sends[w] >= MaxMail
    THEN {Idle} ELSE {Idle} \cup [to : {0}, delay : 1 .. MaxMailDelay]

\* one iteration of the loop of Planet::run: poll, the checkpoint gate, the
\* throttle gate, step
MailRun(w) ==
    /\ planet[w].status = "run"
    /\ \E checks \in Builds(planet[w]) :
       \E polled \in {PollInterplanetaryMessenger(planet[w], w, net.lvt[w], net.inbox[w], checks)} :
       \E net1 \in {[net EXCEPT !.inbox[w] = << >>,
                                !.pool = @ \o polled.out,
                                !.lvt[w] = polled.lvt,
                                !.recvs[w] = IF polled.planet.status = "panic" THEN @
                                             ELSE @ + polled.counter]} :
       \E h1 \in {[phist EXCEPT
                      !.reads[w] = SelectSeq(@, LAMBDA r :
                                       \A i \in 1 .. Len(polled.rollbacks) :
                                           r.step < polled.rollbacks[i]),
                      !.rolled[w] = @ \/ polled.rollbacks # << >>,
                      !.arrived[w] = @ \o [i \in 1 .. Len(net.inbox[w]) |->
                                               [id |-> net.inbox[w][i].id,
                                                recv |-> net.inbox[w][i].recv]]]} :
          IF polled.planet.status = "panic"
                \/ AtCheckpoint(Now(planet[w]), net.checkpoint)
                \/ Throttled(net1.gvt, Now(polled.planet))
          THEN /\ planet' = [planet EXCEPT ![w] = polled.planet]
               /\ net' = net1
               /\ phist' = [h1 EXCEPT !.held[w] =
                               @ \/ (polled.planet.status # "panic"
                                       /\ AtCheckpoint(Now(planet[w]), net.checkpoint))]
          ELSE IF CheckTimeValidity(polled.planet, net1.lvt[w], net1.gvt) # "ok"
          THEN /\ planet' = [planet EXCEPT ![w] = [polled.planet EXCEPT !.status =
                                 IF CheckTimeValidity(polled.planet, net1.lvt[w], net1.gvt)
                                        = "PastTerminal"
                                 THEN "done" ELSE "error"]]
               /\ net' = net1
               /\ phist' = h1
          ELSE \E beh \in MailChoices(w, polled.planet) : \E to \in 0 .. NumAgents :
               \E st \in {PlanetStep(polled.planet, w, beh, net.sends[w], checks)} :
                  /\ beh = Idle => to = NoAgent
                  /\ planet' = [planet EXCEPT ![w] = st.planet]
                  /\ net' = [net1 EXCEPT !.pool = @ \o st.out,
                                         !.sends[w] = st.sent,
                                         !.lvt[w] = IF st.planet.status = "panic" THEN @
                                                    ELSE Now(st.planet)]
                  /\ phist' = [h1 EXCEPT
                                  !.reads[w] = @ \o Deliveries(ClockTick(polled.planet.ms).events,
                                                               h1.to, Now(polled.planet)),
                                  !.to = IF st.sent > net.sends[w]
                                         THEN (MailId(w, net.sends[w]) :> to) @@ @ ELSE @]
    /\ UNCHANGED <<clockVars, world, galaxyVars>>

NextMail ==
    \/ \E w \in Worlds : MailRun(w)
    \/ GvtDaemon

SpecMail == InitMail /\ [][NextMail]_vars

\* the Msgs handed over by the ticks of world w, in order: of the
\* read_message calls of a Msg, the first
Handed(w) ==
    LET r == phist.reads[w]
        first == {i \in 1 .. Len(r) :
                     \A j \in 1 .. (i - 1) : r[j].id # r[i].id \/ r[j].step # r[i].step}
    IN  [n \in 1 .. Cardinality(first) |->
            r[CHOOSE i \in first : Cardinality({j \in first : j < i}) = n - 1]]

CallsOf(w, id, t) ==
    {i \in 1 .. Len(phist.reads[w]) :
        phist.reads[w][i].id = id /\ phist.reads[w][i].step = t}

InitCheckpoint ==
    /\ ClockOff
    /\ world = [status |-> "off"]
    /\ GalaxyOff
    /\ planet = [w \in Worlds |-> NewPlanet(w)]
    /\ \E c \in 1 .. (PTerminal - 1) :
          net = [pool |-> << >>,
                 inbox |-> [w \in Worlds |-> << >>],
                 gvt |-> 0,
                 lvt |-> [w \in Worlds |-> 0],
                 checkpoint |-> c,
                 sends |-> [w \in Worlds |-> 0],
                 recvs |-> [w \in Worlds |-> 0],
                 daemon |-> "run"]
    /\ phist = [reads |-> [w \in Worlds |-> << >>],
                rolled |-> [w \in Worlds |-> FALSE],
                arrived |-> [w \in Worlds |-> << >>],
                to |-> << >>,
                held |-> [w \in Worlds |-> FALSE]]

SpecCheckpoint == InitCheckpoint /\ [][NextMail]_vars

\* C25: in its run loop a Planet whose LVT equals next_checkpoint, below the
\* terminal step, executes no step until the coordinator advances the
\* checkpoint (its LVT does not grow, it hands over no Msg and sends none),
\* and the LVT never exceeds next_checkpoint.
C25_HeldAtCheckpoint ==
    /\ [](\A w \in Worlds : net.lvt[w] <= net.checkpoint)
    /\ [][\A w \in Worlds :
             (/\ planet[w].status = "run"
              /\ net.lvt[w] = net.checkpoint
              /\ net.lvt[w] # PTerminal
              /\ net'.checkpoint = net.checkpoint)
                 => /\ net'.lvt[w] <= net.lvt[w]
                    /\ net'.sends[w] = net.sends[w]
                    /\ Len(phist'.reads[w]) <= Len(phist.reads[w])]_vars

\* a Planet went through an iteration of its loop held at a checkpoint below
\* the terminal step, and is still there
C25_Witness ==
    \E w \in Worlds :
        /\ phist.held[w]
        /\ planet[w].status = "run"
        /\ net.lvt[w] = net.checkpoint
        /\ net.checkpoint < PTerminal

(***************************************************************************)
(* The block-consensus coordinator: Galaxy::master of                      *)
(* src/src/mt/hybrid/galaxy.rs, fed with the Block reports of the planets  *)
(* through GVTComms (src/src/mt/hybrid/blocks.rs), and the GVT controller  *)
(* of the optimistic engine, GVT::poll of src/src/mt/optimistic/gvt.rs.    *)
(***************************************************************************)
BLOCK_SLOTS == 2
BlockSize == 2
MaxBlocks == 3
MaxTally == 1
MaxTransferTime == 2
MaxPolls == 3

\* u64::MAX, the start value of `lowest` in GVT::poll; it is only compared
\* with times, all of which are below it
U64Max == 2147483647

GTerminal == MaxBlocks * BlockSize
BlockSlots == 1 .. BLOCK_SLOTS

\* Option<Block>: None is a record with some = FALSE; block_id, which no
\* decision reads, is left out
NoBlock ==
    [some |-> FALSE, start |-> 0, end |-> 0, sends |-> 0, recvs |-> 0,
     recvs_from_previous |-> [j \in BlockSlots |-> 0]]

BlockNew(start, end) ==
    IF end <= start
    THEN [res |-> "TimeTravel", block |-> NoBlock]
    ELSE [res |-> "ok",
          block |-> [NoBlock EXCEPT !.some = TRUE, !.start = start, !.end = end]]

\* the k-th block of width block_size: the first starts at gvt + 1 = 1, each
\* next one at the end of the one before plus one
BlockStart(k) == k * BlockSize + 1
BlockEnd(k) == (k + 1) * BlockSize

\* what Block::send and Block::recv have counted when a block is flushed
Tallies ==
    {t \in [sends : 0 .. MaxTally, recvs : 0 .. MaxTally,
            recvs_from_previous : [BlockSlots -> 0 .. MaxTally]] :
        t.sends + t.recvs + SumOver(t.recvs_from_previous, BlockSlots) <= MaxTally}

Tallied(b, t) ==
    [b EXCEPT !.sends = t.sends, !.recvs = t.recvs,
              !.recvs_from_previous = t.recvs_from_previous]

NewGalaxy ==
    [gvt |-> 0,
     block_counter |-> 0,
     next |-> [w \in Worlds |-> NoBlock],
     pending |-> [w \in Worlds |-> [j \in BlockSlots |-> NoBlock]],
     unmatched_sends |-> 0,
     status |-> "run",
     pc |-> "poll"]

\* GVTComms::poll reads at most BLOCK_SLOTS blocks from each channel
Taken(channel) ==
    [w \in Worlds |->
        SubSeq(channel[w], 1, IF Len(channel[w]) < BLOCK_SLOTS THEN Len(channel[w])
                              ELSE BLOCK_SLOTS)]
Left(channel) ==
    [w \in Worlds |->
        SubSeq(channel[w], Len(Taken(channel)[w]) + 1, Len(channel[w]))]

\* the slot poll_blocks gives a block: the next slot, pending[diff], or a
\* failure; block.start - self.gvt and the - 1 underflow when the block does
\* not lie a whole block_size ahead
Placement(gvt, start, checks) ==
    IF start = gvt + 1 THEN [res |-> "next", diff |-> 0]
    ELSE IF start < gvt /\ checks THEN [res |-> "panic", diff |-> 0]
    ELSE IF WrapSub(start, gvt) \div BlockSize = 0
    THEN [res |-> IF checks THEN "panic" ELSE "DistantBlocks", diff |-> 0]
    ELSE IF WrapSub(start, gvt) \div BlockSize - 1 >= BLOCK_SLOTS
    THEN [res |-> "DistantBlocks", diff |-> 0]
    ELSE [res |-> "pending", diff |-> WrapSub(start, gvt) \div BlockSize - 1]

Place(g, i, block, p) ==
    IF p.res = "next" THEN [g EXCEPT !.next[i] = block]
    ELSE IF p.res = "pending" THEN [g EXCEPT !.pending[i][p.diff + 1] = block]
    ELSE [g EXCEPT !.status = p.res]

\* for block in pblocks
RECURSIVE PlanetBlocks(_, _, _, _)
PlanetBlocks(g, i, pblocks, checks) ==
    IF g.status # "run" \/ pblocks = << >> THEN g
    ELSE PlanetBlocks(Place(g, i, Head(pblocks),
                            Placement(g.gvt, Head(pblocks).start, checks)),
                      i, Tail(pblocks), checks)

\* for (i, planet_blocks) in blocks.into_iter().enumerate()
RECURSIVE PollPlanets(_, _, _, _)
PollPlanets(g, i, blocks, checks) ==
    IF i = NumWorlds THEN g
    ELSE PollPlanets(PlanetBlocks(g, i, blocks[i], checks), i + 1, blocks, checks)

poll_blocks(g, blocks, checks) == PollPlanets(g, 0, blocks, checks)

\* the statistics update_consensus gathers over self.next
ZeroStats ==
    [sends |-> 0, recvs |-> 0, start |-> 0, end |-> 0,
     recvs_from_previous |-> [j \in BlockSlots |-> 0], res |-> "ok"]

StatsWith(acc, block, start, end) ==
    IF end # block.end /\ start # block.start
    THEN [acc EXCEPT !.res = "MismatchBlockTimeStamps"]
    ELSE [sends |-> acc.sends + block.sends,
          recvs |-> acc.recvs + block.recvs,
          start |-> start,
          end |-> end,
          recvs_from_previous |->
              [j \in BlockSlots |->
                  acc.recvs_from_previous[j] + block.recvs_from_previous[j]],
          res |-> "ok"]

\* for i in &mut self.next
RECURSIVE NextStats(_, _, _)
NextStats(next, i, acc) ==
    IF i = NumWorlds \/ acc.res # "ok" THEN acc
    ELSE NextStats(next, i + 1,
                   IF acc.start = acc.end /\ acc.end = 0
                   THEN StatsWith(acc, next[i], next[i].start, next[i].end)
                   ELSE StatsWith(acc, next[i], acc.start, acc.end))

\* the receipts that blocks of the pending ring report for earlier blocks
RECURSIVE RowLate(_, _)
RowLate(row, j) ==
    IF j > BLOCK_SLOTS THEN 0
    ELSE IF ~row[j].some THEN 0
    ELSE row[j].recvs_from_previous[j] + RowLate(row, j + 1)

LateRecvs(pending) == SumOver([w \in Worlds |-> RowLate(pending[w], 1)], Worlds)

\* the sum, as i32, of sends - recvs of the blocks that move to self.next
NewPendings(pending) ==
    SumOver([w \in Worlds |->
                IF pending[w][1].some THEN pending[w][1].sends - pending[w][1].recvs
                ELSE 0], Worlds)

\* a shift that moves the nearest pending block and empties the ring
ShiftedEmptying(g, new_pendings) ==
    [g EXCEPT !.next = [w \in Worlds |-> g.pending[w][1]],
              !.pending = [w \in Worlds |-> [j \in BlockSlots |-> NoBlock]],
              !.unmatched_sends = IF new_pendings < 0 THEN @ ELSE new_pendings,
              !.status = IF new_pendings < 0 THEN "TimeTravel" ELSE @]

Shifted(g, new_pendings) ==
    [g EXCEPT !.next = [w \in Worlds |-> g.pending[w][1]],
              !.pending = [w \in Worlds |->
                              [j \in BlockSlots |->
                                  IF j < BLOCK_SLOTS THEN g.pending[w][j + 1] ELSE NoBlock]],
              !.unmatched_sends = IF new_pendings < 0 THEN @ ELSE new_pendings,
              !.status = IF new_pendings < 0 THEN "TimeTravel" ELSE @]

commit_block(g, start, end) ==
    IF BlockNew(start, end).res # "ok"
    THEN [g EXCEPT !.block_counter = @ + 1, !.status = "TimeTravel"]
    ELSE Shifted([g EXCEPT !.block_counter = @ + 1, !.gvt = end], NewPendings(g.pending))

Committed(g, branch) ==
    [galaxy |-> g, some |-> g.status = "run", branch |-> branch]

NoConsensus(g) == [galaxy |-> g, some |-> FALSE, branch |-> 0]

\* the two commit branches of update_consensus
Decide(g, st, unmatched, late_recvs, checks) ==
    IF unmatched = 0 /\ st.end > g.gvt
    THEN Committed(commit_block(g, st.start, st.end), 1)
    ELSE IF unmatched < late_recvs /\ checks
    THEN NoConsensus([g EXCEPT !.status = "panic"])
    ELSE IF WrapSub(unmatched, late_recvs) = 0
    THEN Committed(commit_block(g, st.start, st.end), 2)
    ELSE NoConsensus(g)

Unmatched(g, st, checks) ==
    IF st.res # "ok" THEN NoConsensus([g EXCEPT !.status = st.res])
    ELSE IF st.sends < st.recvs /\ checks THEN NoConsensus([g EXCEPT !.status = "panic"])
    ELSE Decide([g EXCEPT !.unmatched_sends = WrapSub(st.sends, st.recvs)], st,
                WrapSub(st.sends, st.recvs), LateRecvs(g.pending), checks)

update_consensus(g, checks) ==
    IF \E w \in Worlds : ~g.next[w].some THEN NoConsensus(g)
    ELSE Unmatched(g, NextStats(g.next, 0, ZeroStats), checks)

\* fetch_latest_uncommited_blocks: the next block, overlaid by the last
\* block of the pending row
Latest(g, w) ==
    IF \E j \in BlockSlots : g.pending[w][j].some
    THEN g.pending[w][CHOOSE j \in BlockSlots :
                          /\ g.pending[w][j].some
                          /\ \A l \in BlockSlots : g.pending[w][l].some => l <= j]
    ELSE g.next[w]

\* a test that takes every state for terminal
AllTerminalAlways(g) == TRUE

check_all_terminal(g) ==
    \/ g.gvt >= GTerminal
    \/ /\ \A w \in Worlds : Latest(g, w).some
       /\ Latest(g, NumWorlds - 1).end >= GTerminal

check_terminate(g) ==
    /\ g.unmatched_sends = 0
    /\ \A w \in Worlds : ~g.next[w].some

\* GVT::poll: the lowest time of the transfers polled
Lowest(times) ==
    IF times = {} THEN U64Max
    ELSE CHOOSE t \in times : \A u \in times : t <= u

\* GVT::poll without the test that refuses a time below the clock
GvtPolledUnguarded(c, times, failed) ==
    IF failed THEN [c EXCEPT !.status = "MesoError"]
    ELSE [c EXCEPT !.time = Lowest(times), !.polls = @ + 1]

GvtPolled(c, times, failed) ==
    IF failed THEN [c EXCEPT !.status = "MesoError"]
    ELSE IF c.time > Lowest(times) THEN [c EXCEPT !.status = "TimeTravel"]
    ELSE [c EXCEPT !.time = Lowest(times), !.polls = @ + 1]

\* Galaxy::create with spawn_planet for every planet
HybridEngine ==
    /\ galaxy = NewGalaxy
    /\ gvtcomms = [channel |-> [w \in Worlds |-> << >>],
                   broadcast |-> << >>,
                   reports |-> [w \in Worlds |-> 0],
                   branches |-> {}, shifted |-> 0]
    /\ global_clock = [status |-> "off"]

\* GVT::new
OptimisticEngine ==
    /\ galaxy = [status |-> "off"]
    /\ gvtcomms = [broadcast |-> << >>]
    /\ global_clock = [time |-> 0, status |-> "run", polls |-> 0]

\* the coordinator of the hybrid engine or the one of the optimistic engine
InitGalaxy ==
    /\ ClockOff
    /\ world = [status |-> "off"]
    /\ PlanetsOff
    /\ HybridEngine \/ OptimisticEngine

\* a planet whose clock has passed the end of its current block flushes the
\* block to its channel and advances to the next block
FlushBlock(w, k, t) ==
    /\ BlockNew(BlockStart(k), BlockEnd(k)).res = "ok"
    /\ gvtcomms' = [gvtcomms EXCEPT
           !.channel[w] = Append(@, Tallied(BlockNew(BlockStart(k), BlockEnd(k)).block, t)),
           !.reports[w] = k + 1]

ReportBlock(w) ==
    /\ galaxy.status = "run"
    /\ gvtcomms.reports[w] < MaxBlocks
    /\ Len(gvtcomms.channel[w]) < BLOCK_SLOTS
    /\ \E t \in Tallies : FlushBlock(w, gvtcomms.reports[w], t)
    /\ UNCHANGED <<clockVars, world, planetVars, galaxy, global_clock>>

AfterPoll(g, more) ==
    IF g.status # "run" \/ more THEN g ELSE [g EXCEPT !.pc = "consensus"]

\* one round of the polling loop of Galaxy::master.  The loop runs ten
\* rounds; the planets report fewer than ten blocks in all, so the rounds
\* that find a block are fewer than the loop has, and the model leaves the
\* number of rounds open instead of counting the empty ones.
MasterPoll ==
    /\ galaxy.status = "run"
    /\ galaxy.pc = "poll"
    /\ \E checks \in BOOLEAN, more \in BOOLEAN :
          galaxy' = AfterPoll(poll_blocks(galaxy, Taken(gvtcomms.channel), checks), more)
    /\ gvtcomms' = [gvtcomms EXCEPT !.channel = Left(gvtcomms.channel)]
    /\ UNCHANGED <<clockVars, world, planetVars, global_clock>>

\* the blocks of the pending ring
PendingBlocks(g) ==
    {<<w, j>> \in Worlds \X BlockSlots : g.pending[w][j].some}

\* branches and shifted are history: the commit branches taken and the number
\* of pending blocks that commits have moved
AfterConsensus(r) ==
    /\ galaxy' = IF r.some \/ r.galaxy.status # "run" THEN r.galaxy
                 ELSE IF check_all_terminal(r.galaxy) /\ check_terminate(r.galaxy)
                 THEN [r.galaxy EXCEPT !.status = "done"]
                 ELSE [r.galaxy EXCEPT !.pc = "poll"]
    /\ gvtcomms' = IF r.some
                   THEN [gvtcomms EXCEPT !.broadcast = Append(@, r.galaxy.gvt),
                                         !.branches = @ \cup {r.branch},
                                         !.shifted = @ + Cardinality(PendingBlocks(galaxy))]
                   ELSE gvtcomms

\* one pass of `while let Some(new_gvt) = self.update_consensus()?`, and the
\* termination test when it yields None
MasterConsensus ==
    /\ galaxy.status = "run"
    /\ galaxy.pc = "consensus"
    /\ \E checks \in BOOLEAN : AfterConsensus(update_consensus(galaxy, checks))
    /\ UNCHANGED <<clockVars, world, planetVars, global_clock>>

\* one call of GVT::poll by the polling thread of the optimistic engine
GVTPoll ==
    /\ global_clock.status = "run"
    /\ global_clock.polls < MaxPolls
    /\ \E times \in SUBSET (0 .. MaxTransferTime), failed \in BOOLEAN :
          global_clock' = GvtPolled(global_clock, times, failed)
    /\ UNCHANGED <<clockVars, world, planetVars, galaxy, gvtcomms>>

NextGalaxy ==
    \/ \E w \in Worlds : ReportBlock(w)
    \/ MasterPoll
    \/ MasterConsensus
    \/ GVTPoll

SpecGalaxy == InitGalaxy /\ [][NextGalaxy]_vars

\* C3: GVT is monotone non-decreasing: no step of the block coordinator
\* lowers Galaxy::gvt, every value it broadcasts (a block committed through
\* either branch of update_consensus) is at least the GVT published before,
\* and no GVT::poll lowers the global clock of the optimistic engine.
C3_GvtMonotone ==
    [][/\ galaxy.status # "off" =>
              /\ galaxy'.gvt >= galaxy.gvt
              /\ gvtcomms'.broadcast # gvtcomms.broadcast =>
                     gvtcomms'.broadcast[Len(gvtcomms'.broadcast)] >= galaxy.gvt
       /\ global_clock.status # "off" =>
              global_clock'.time >= global_clock.time]_vars

\* blocks have been committed through both branches of update_consensus
C3_Witness ==
    /\ galaxy.status = "run"
    /\ Len(gvtcomms.broadcast) >= 2
    /\ gvtcomms.branches = {1, 2}

\* C26: the block coordinator commits the next block, advancing GVT to that
\* block's end, only when every world has reported its next block and over
\* those reports sum(sends) - sum(recvs) - sum(recvs credited from later
\* blocks) = 0; in every other situation update_consensus leaves GVT and the
\* block ring unchanged.
C26_CommitOnlyWhenBalanced ==
    [][(galaxy.status = "run" /\ galaxy.pc = "consensus") =>
          LET all == \A w \in Worlds : galaxy.next[w].some
              balance == SumOver([w \in Worlds |-> galaxy.next[w].sends], Worlds)
                             - SumOver([w \in Worlds |-> galaxy.next[w].recvs], Worlds)
                             - LateRecvs(galaxy.pending)
          IN  /\ galaxy'.gvt # galaxy.gvt =>
                     (all /\ balance = 0 /\ galaxy'.gvt = galaxy.next[0].end)
              /\ ~(all /\ balance = 0) =>
                     /\ galaxy'.gvt = galaxy.gvt
                     /\ galaxy'.next = galaxy.next
                     /\ galaxy'.pending = galaxy.pending]_vars

\* the end of the latest block of world w that the coordinator has polled
LatestPolledEnd(w) == (gvtcomms.reports[w] - Len(gvtcomms.channel[w])) * BlockSize

\* C27: the master loop of the block coordinator ends only when every
\* world's latest reported block ends at or past terminal and no block
\* remains pending: it never ends while the latest reported block of some
\* world ends before terminal.
C27_MasterEndsOnlyAtTerminal ==
    [][(galaxy.status = "run" /\ galaxy'.status = "done") =>
          /\ \A w \in Worlds : LatestPolledEnd(w) >= GTerminal
          /\ \A w \in Worlds : ~galaxy'.next[w].some
          /\ \A w \in Worlds : \A j \in BlockSlots : ~galaxy'.pending[w][j].some]_vars

\* the master loop has ended, the last block committed through the late
\* receipts of a pending block
C27_Witness ==
    /\ galaxy.status = "done"
    /\ galaxy.gvt = GTerminal
    /\ 2 \in gvtcomms.branches

(***************************************************************************)
(* Planets whose blocks are not all of the coordinator's width: each       *)
(* report is the block after the one the planet reported before, of width  *)
(* block_size or block_size + 1, and counts no Msg.                        *)
(***************************************************************************)
InitDrift ==
    /\ ClockOff
    /\ world = [status |-> "off"]
    /\ PlanetsOff
    /\ galaxy = NewGalaxy
    /\ gvtcomms = [channel |-> [w \in Worlds |-> << >>],
                   broadcast |-> << >>,
                   reports |-> [w \in Worlds |-> 0],
                   branches |-> {}, shifted |-> 0,
                   ends |-> [w \in Worlds |-> 0]]
    /\ global_clock = [status |-> "off"]

ReportDrift(w) ==
    /\ galaxy.status = "run"
    /\ gvtcomms.ends[w] < GTerminal
    /\ Len(gvtcomms.channel[w]) < BLOCK_SLOTS
    /\ \E width \in {BlockSize, BlockSize + 1} :
       \E new \in {BlockNew(gvtcomms.ends[w] + 1, gvtcomms.ends[w] + width)} :
          /\ new.res = "ok"
          /\ gvtcomms' = [gvtcomms EXCEPT !.channel[w] = Append(@, new.block),
                                          !.reports[w] = @ + 1,
                                          !.ends[w] = @ + width]
    /\ UNCHANGED <<clockVars, world, planetVars, galaxy, global_clock>>

NextDrift ==
    \/ \E w \in Worlds : ReportDrift(w)
    \/ MasterPoll
    \/ MasterConsensus

SpecDrift == InitDrift /\ [][NextDrift]_vars

\* C28: update_consensus fails with the block-mismatch error whenever the
\* next blocks reported by two worlds differ in start or in end, and commits
\* no block whose reports disagree on either boundary.
C28_MismatchWhenBoundariesDiffer ==
    [][(/\ galaxy.status = "run"
        /\ galaxy.pc = "consensus"
        /\ galaxy' # galaxy
        /\ \A w \in Worlds : galaxy.next[w].some
        /\ \E v \in Worlds : \E w \in Worlds :
              \/ galaxy.next[v].start # galaxy.next[w].start
              \/ galaxy.next[v].end # galaxy.next[w].end)
          => /\ galaxy'.status = "MismatchBlockTimeStamps"
             /\ galaxy'.gvt = galaxy.gvt]_vars

(***************************************************************************)
(* Scheduling calls and the single-threaded run.  Either a HybridEngine    *)
(* is set up (spawn_agent, schedule, and its Planets stepped one by one),  *)
(* or a single-threaded World is set up, scheduled and run.  The agents    *)
(* of the Planets yield Wait; the agents of the World yield Timeout(1).    *)
(* timestep is 1.                                                          *)
(***************************************************************************)
STerminal == 7
MaxCalls == 2
MaxAgentId == 1
MaxEngineSteps == 3

\* the id of the Event of the n-th scheduling call
SchedId(n) == 1000 + n

\* a schedule that accepts a time one step past terminal
ScheduleLate(pl, id, time, agent, checks) ==
    IF time < Now(pl) THEN [planet |-> pl, res |-> "TimeTravel"]
    ELSE IF time > STerminal + 1 THEN [planet |-> pl, res |-> "PastTerminal"]
    ELSE [planet |-> CommitEvent(pl, [id |-> id, time |-> time, commit |-> Now(pl),
                                      kind |-> "Event", who |-> agent], checks),
          res |-> "Ok"]

\* a schedule that commits before it looks at the time
ScheduleCommitsFirst(pl, id, time, agent, checks) ==
    [planet |-> CommitEvent(pl, [id |-> id, time |-> time, commit |-> Now(pl),
                                 kind |-> "Event", who |-> agent], checks),
     res |-> IF time < Now(pl) THEN "TimeTravel"
             ELSE IF time > STerminal THEN "PastTerminal" ELSE "Ok"]

\* Planet::schedule and st World::schedule (the same body): the Planet or
\* World after the call and the Result
Schedule(pl, id, time, agent, checks) ==
    IF time < Now(pl) THEN [planet |-> pl, res |-> "TimeTravel"]
    ELSE IF time > STerminal THEN [planet |-> pl, res |-> "PastTerminal"]
    ELSE [planet |-> CommitEvent(pl, [id |-> id, time |-> time, commit |-> Now(pl),
                                      kind |-> "Event", who |-> agent], checks),
          res |-> "Ok"]

\* Planet::from_config: no agents, empty wheels
ConfiguredPlanet ==
    [ev |-> NewClock, evo |-> {}, ms |-> NewClock, mso |-> {}, anti |-> << >>,
     status |-> "run", agents |-> 0]

\* st World::create.  stepped and increments are history: the agent steps
\* made and the number of increments of the clock.
StWorld ==
    [status |-> "setup", ev |-> NewClock, evo |-> {}, agents |-> 0,
     stepped |-> << >>, increments |-> 0, scheduled |-> << >>]

\* HybridEngine::create
InitEngine ==
    /\ planet = [w \in Worlds |-> ConfiguredPlanet]
    /\ net = [lvt |-> [w \in Worlds |-> 0], gvt |-> 0]
    /\ world = [status |-> "off"]

\* a single-threaded World is created
InitStWorld ==
    /\ planet = << >>
    /\ net = [status |-> "off"]
    /\ world = StWorld

NoCall == [op |-> "none", target |-> 0, time |-> 0, agent |-> 0, res |-> "none"]

InitSched ==
    /\ ClockOff
    /\ GalaxyOff
    /\ InitEngine \/ InitStWorld
    /\ phist = [n |-> 0, last |-> NoCall]

\* HybridEngine::spawn_agent with Planet::spawn_agent_preconfigured
EngineSpawnAgent(planet_id) ==
    /\ world.status = "off"
    /\ phist.n < MaxCalls
    /\ IF planet_id >= NumWorlds
       THEN /\ UNCHANGED planet
            /\ phist' = [n |-> phist.n + 1,
                         last |-> [op |-> "spawn_agent", target |-> planet_id, time |-> 0,
                                   agent |-> 0, res |-> "InvalidWorldId"]]
       ELSE /\ planet' = [planet EXCEPT ![planet_id].agents = @ + 1]
            /\ phist' = [n |-> phist.n + 1,
                         last |-> [op |-> "spawn_agent", target |-> planet_id, time |-> 0,
                                   agent |-> planet[planet_id].agents, res |-> "Ok"]]
    /\ UNCHANGED <<clockVars, world, net, galaxyVars>>

\* HybridEngine::schedule with Planet::schedule
EngineSchedule(planet_id, agent_id, time) ==
    /\ world.status = "off"
    /\ phist.n < MaxCalls
    /\ IF planet_id >= NumWorlds
       THEN /\ UNCHANGED planet
            /\ phist' = [n |-> phist.n + 1,
                         last |-> [op |-> "schedule", target |-> planet_id, time |-> time,
                                   agent |-> agent_id, res |-> "InvalidWorldId"]]
       ELSE /\ planet[planet_id].status = "run"
            /\ \E checks \in BOOLEAN :
                  LET r == Schedule(planet[planet_id], SchedId(phist.n), time, agent_id, checks)
                  IN  /\ planet' = [planet EXCEPT ![planet_id] = r.planet]
                      /\ phist' = [n |-> phist.n + 1,
                                   last |-> [op |-> "schedule", target |-> planet_id,
                                             time |-> time, agent |-> agent_id, res |-> r.res]]
    /\ UNCHANGED <<clockVars, world, net, galaxyVars>>

\* the loop over the events of a tick in Planet::step when the agents yield
\* Wait; agents[event.agent] panics for an agent that was never spawned
RECURSIVE StepWaiting(_, _)
StepWaiting(pl, events) ==
    IF events = << >> \/ pl.status = "panic" THEN pl
    ELSE IF Head(events).who >= pl.agents THEN Dead(pl)
    ELSE StepWaiting(pl, Tail(events))

\* Planet::step called on a Planet of the engine: check_time_validity, the
\* ticks, the agents, increment, which stores the LVT
EngineStep(w) ==
    /\ world.status = "off"
    /\ planet[w].status = "run"
    /\ Now(planet[w]) < MaxEngineSteps
    /\ TimeValidity(planet[w], net.lvt[w], net.gvt, STerminal) = "ok"
    /\ \E checks \in Builds(planet[w]) :
          LET pl1 == StepWaiting([planet[w] EXCEPT !.ms = ClockTick(planet[w].ms).clock,
                                                   !.ev = ClockTick(planet[w].ev).clock],
                                 ClockTick(planet[w].ev).events)
              pl2 == IF pl1.status = "panic" THEN pl1 ELSE PlanetIncrement(pl1, checks)
          IN  /\ planet' = [planet EXCEPT ![w] = pl2]
              /\ net' = [net EXCEPT !.lvt[w] = IF pl2.status = "panic" THEN @ ELSE Now(pl2)]
    /\ phist' = [phist EXCEPT !.last = NoCall]
    /\ UNCHANGED <<clockVars, world, galaxyVars>>

\* Planet::rollback called on a Planet of the engine, as test_rollback calls
\* it: TimeTravel for a time after now, else the wheels are rolled back and
\* the LVT is stored
EngineRollback(w, time) ==
    /\ world.status = "off"
    /\ planet[w].status = "run"
    /\ \E checks \in BOOLEAN :
          IF time > Now(planet[w])
          THEN /\ UNCHANGED <<planet, net>>
               /\ phist' = [phist EXCEPT !.last = [op |-> "rollback", target |-> w,
                                                   time |-> time, agent |-> 0,
                                                   res |-> "TimeTravel"]]
          ELSE \E rb \in {PlanetRollback(planet[w], w, time, net.lvt[w], checks)} :
                  /\ planet' = [planet EXCEPT ![w] = rb.planet]
                  /\ net' = [net EXCEPT !.lvt[w] = rb.lvt]
                  /\ phist' = [phist EXCEPT !.last =
                                  [op |-> "rollback", target |-> w, time |-> time, agent |-> 0,
                                   res |-> IF rb.planet.status = "panic" THEN "panic" ELSE "Ok"]]
    /\ UNCHANGED <<clockVars, world, galaxyVars>>

\* st World::spawn_agent
StSpawnAgent ==
    /\ world.status = "setup"
    /\ world.agents <= MaxAgentId
    /\ world' = [world EXCEPT !.agents = @ + 1]
    /\ phist' = [phist EXCEPT !.last = NoCall]
    /\ UNCHANGED <<clockVars, planet, net, galaxyVars>>

\* st World::schedule, before run or after it has returned
StSchedule(time, agent) ==
    /\ world.status \in {"setup", "done"}
    /\ phist.n < MaxCalls
    /\ \E checks \in BOOLEAN :
          LET r == Schedule(world, SchedId(phist.n), time, agent, checks)
          IN  /\ world' = IF r.res = "Ok"
                          THEN [r.planet EXCEPT !.scheduled =
                                    Append(@, [time |-> time, agent |-> agent])]
                          ELSE r.planet
              /\ phist' = [n |-> phist.n + 1,
                           last |-> [op |-> "schedule", target |-> 0, time |-> time,
                                     agent |-> agent, res |-> r.res]]
    /\ UNCHANGED <<clockVars, planet, net, galaxyVars>>

\* World::run is called
StStart ==
    /\ world.status = "setup"
    /\ world' = [world EXCEPT !.status = "running"]
    /\ phist' = [phist EXCEPT !.last = NoCall]
    /\ UNCHANGED <<clockVars, planet, net, galaxyVars>>

\* the body of `for event in events` of st World::run for an agent that
\* exists: the agent is stepped and yields Timeout(1), which is committed
\* unless it is past terminal
StAgentStep(w, event, checks) ==
    IF Now(w) + 1 > STerminal
    THEN [w EXCEPT !.stepped = Append(@, [agent |-> event.who, at |-> Now(w)])]
    ELSE CommitEvent([w EXCEPT !.stepped = Append(@, [agent |-> event.who, at |-> Now(w)])],
                     [id |-> EventId(event.who, Now(w) + 1), time |-> Now(w) + 1,
                      commit |-> Now(w), kind |-> "Event", who |-> event.who],
                     checks)

\* `for event in events` of st World::run; agents[event.agent] panics for an
\* agent that was never spawned
RECURSIVE StProcess(_, _, _)
StProcess(w, events, checks) ==
    IF events = << >> \/ w.status = "panic" THEN w
    ELSE IF Head(events).time > STerminal THEN w
    ELSE IF Head(events).who >= w.agents THEN Dead(w)
    ELSE CHOOSE r \in {StProcess(w1, Tail(events), checks) :
                          w1 \in {StAgentStep(w, Head(events), checks)}} : TRUE

\* the increment that ends an iteration of st World::run
StIncremented(w, inc) ==
    IF w.status = "panic" THEN w
    ELSE IF inc.res = "panic" THEN Dead(w)
    ELSE [w EXCEPT !.ev = inc.clock, !.evo = inc.overflow, !.increments = @ + 1]

\* the body of the loop of st World::run once the events are processed: the
\* increment is outside `if let Ok(events)` and always runs
StProcessed(w1, checks) ==
    CHOOSE r \in {StIncremented(w1, inc) : inc \in {ClockIncrement(w1.ev, w1.evo, checks)}} :
        TRUE

\* the body of the loop of st World::run: tick, the events, increment
StBody(w, checks) ==
    CHOOSE r \in {StProcessed(w1, checks) :
                     w1 \in {StProcess([w EXCEPT !.ev = ClockTick(w.ev).clock],
                                       ClockTick(w.ev).events, checks)}} : TRUE

\* a run loop that stops one step late
StRunLate(w, checks) ==
    IF Now(w) > STerminal THEN [w EXCEPT !.status = "done"] ELSE StBody(w, checks)

\* one iteration of the loop of st World::run
StRun(w, checks) ==
    IF Now(w) + 1 > STerminal THEN [w EXCEPT !.status = "done"] ELSE StBody(w, checks)

StIterate ==
    /\ world.status = "running"
    /\ \E checks \in BOOLEAN : \E w \in {world} : world' = StRun(w, checks)
    /\ phist' = [phist EXCEPT !.last = NoCall]
    /\ UNCHANGED <<clockVars, planet, net, galaxyVars>>

\* a single-threaded World: set up, scheduled, run
NextSt ==
    \/ StSpawnAgent
    \/ \E time \in 0 .. STerminal + 1 : \E agent \in 0 .. MaxAgentId : StSchedule(time, agent)
    \/ StStart
    \/ StIterate

NextSched ==
    \/ \E planet_id \in 0 .. NumWorlds : EngineSpawnAgent(planet_id)
    \/ \E planet_id \in 0 .. NumWorlds : \E agent_id \in 0 .. MaxAgentId :
          \E time \in 0 .. STerminal + 1 : EngineSchedule(planet_id, agent_id, time)
    \/ \E w \in Worlds : EngineStep(w)
    \/ NextSt

SpecSched == InitSched /\ [][NextSched]_vars

InitSt ==
    /\ ClockOff
    /\ GalaxyOff
    /\ InitStWorld
    /\ phist = [n |-> 0, last |-> NoCall]

SpecSt == InitSt /\ [][NextSt]_vars

\* World::run is a loop of one thread: once called, it keeps iterating
SpecStFair == SpecSt /\ WF_vars(StIterate)

\* the Events a Planet or World holds: its event wheel and its overflow
EventsOf(pl) ==
    UNION {{pl.ev.wheels[k][sl][i] : i \in 1 .. Len(pl.ev.wheels[k][sl])} :
              k \in Levels, sl \in Slots} \cup pl.evo

EventCount(pl) == WheelCount(pl.ev) + Cardinality(pl.evo)

\* C16: Planet::schedule(t, agent) fails with TimeTravel when t < now, with
\* PastTerminal when t * timestep > terminal, and otherwise commits exactly
\* one Event(commit_time = now, time = t, agent, Wait) to the event wheel or
\* its overflow and returns Ok.
C16_PlanetSchedule ==
    [][\A w \in Worlds :
          (/\ world.status = "off"
           /\ phist'.n = phist.n + 1
           /\ phist'.last.op = "schedule"
           /\ phist'.last.target = w) =>
              /\ phist'.last.time < Now(planet[w]) => phist'.last.res = "TimeTravel"
              /\ (phist'.last.time >= Now(planet[w]) /\ phist'.last.time > STerminal) =>
                     phist'.last.res = "PastTerminal"
              /\ (phist'.last.time >= Now(planet[w]) /\ phist'.last.time <= STerminal) =>
                     /\ phist'.last.res = "Ok"
                     /\ EventCount(planet'[w]) = EventCount(planet[w]) + 1
                     /\ \E e \in EventsOf(planet'[w]) \ EventsOf(planet[w]) :
                           /\ EventsOf(planet'[w]) = EventsOf(planet[w]) \cup {e}
                           /\ e.commit = Now(planet[w])
                           /\ e.time = phist'.last.time
                           /\ e.who = phist'.last.agent
                           /\ e.kind = "Event"]_vars

\* a Planet that has stepped, whose last schedule was accepted and went to
\* the overflow of the event wheel
C16_Witness ==
    /\ world.status = "off"
    /\ phist.last.op = "schedule"
    /\ phist.last.res = "Ok"
    /\ phist.last.target \in Worlds
    /\ Now(planet[phist.last.target]) > 0
    /\ \E e \in planet[phist.last.target].evo : e.id = SchedId(phist.n - 1)

\* C17: a scheduling call that returns an error (World::schedule,
\* Planet::schedule, HybridEngine::spawn_agent or schedule with a world id out
\* of range) leaves all state unchanged.
C17_FailedCallChangesNothing ==
    [][(phist'.n = phist.n + 1 /\ phist'.last.res # "Ok") =>
          (planet' = planet /\ world' = world /\ net' = net)]_vars

\* two calls have failed, the last one with TimeTravel on a World or Planet
\* that holds an Event
C17_Witness ==
    /\ phist.n = MaxCalls
    /\ phist.last.res = "TimeTravel"
    /\ \/ world.status = "done"
       \/ world.status = "off" /\ \E w \in Worlds : EventsOf(planet[w]) # {}

\* every agent the World was given an Event for has been spawned
AgentsSpawned ==
    \A i \in 1 .. Len(world.scheduled) : world.scheduled[i].agent < world.agents

\* C18: a single-threaded World run with timestep 1 and terminal T terminates
\* with now = T after advancing the clock exactly T times; an agent that
\* returns Timeout(1) at every step (scheduled once, at 0) is stepped once at
\* each step and never past terminal.
C18_RunTerminatesAtTerminal ==
    /\ [](world.status \in {"running", "done"} =>
             /\ \A i \in 1 .. Len(world.stepped) : world.stepped[i].at <= STerminal
             /\ world.increments <= STerminal
             /\ world.status = "done" =>
                   /\ Now(world) = STerminal
                   /\ world.increments = STerminal
                   /\ (world.scheduled = <<[time |-> 0, agent |-> 0]>> /\ AgentsSpawned) =>
                          world.stepped = [i \in 1 .. STerminal |-> [agent |-> 0, at |-> i - 1]])
    /\ ((world.status = "running" /\ AgentsSpawned) ~> (world.status = "done"))

C18_Witness ==
    /\ world.status = "done"
    /\ world.scheduled = <<[time |-> 0, agent |-> 0]>>
    /\ Len(world.stepped) = STerminal

\* the calls made on the first Planet of an engine: spawn_agent, schedule,
\* step and rollback
NextRollback ==
    \/ EngineSpawnAgent(0)
    \/ \E time \in 0 .. MaxEngineSteps : EngineSchedule(0, 0, time)
    \/ EngineStep(0)
    \/ \E time \in 0 .. (MaxEngineSteps + 1) : EngineRollback(0, time)

\* HybridEngine::create, no call made yet
InitRollback ==
    /\ ClockOff
    /\ GalaxyOff
    /\ InitEngine
    /\ phist = [n |-> 0, last |-> NoCall]

SpecRollback == InitRollback /\ [][NextRollback]_vars

SetClocks(w, e, m) ==
    /\ planet[w].status = "run"
    /\ planet' = [planet EXCEPT ![w].ev.step = e, ![w].ms.step = m]
    /\ phist' = [phist EXCEPT !.last = [op |-> "set", target |-> w, time |-> e, agent |-> m,
                                        res |-> "Ok"]]
    /\ UNCHANGED <<clockVars, world, net, galaxyVars>>

\* Planet::step: check_time_validity, and when it passes the ticks, the
\* agents and increment, which stores the LVT
StepCall(w) ==
    /\ planet[w].status = "run"
    /\ Now(planet[w]) < MaxEngineSteps
    /\ \E v \in {TimeValidity(planet[w], net.lvt[w], net.gvt, STerminal)} :
          IF v # "ok"
          THEN /\ UNCHANGED <<planet, net>>
               /\ phist' = [phist EXCEPT !.last = [op |-> "step", target |-> w,
                                                   time |-> Now(planet[w]), agent |-> 0,
                                                   res |-> v]]
          ELSE \E checks \in BOOLEAN :
               \E pl1 \in {StepWaiting([planet[w] EXCEPT !.ms = ClockTick(planet[w].ms).clock,
                                                         !.ev = ClockTick(planet[w].ev).clock],
                                       ClockTick(planet[w].ev).events)} :
               \E pl2 \in {IF pl1.status = "panic" THEN pl1 ELSE PlanetIncrement(pl1, checks)} :
                  /\ planet' = [planet EXCEPT ![w] = pl2]
                  /\ net' = [net EXCEPT !.lvt[w] = IF pl2.status = "panic" THEN @ ELSE Now(pl2)]
                  /\ phist' = [phist EXCEPT !.last =
                                  [op |-> "step", target |-> w, time |-> Now(planet[w]),
                                   agent |-> 0,
                                   res |-> IF pl2.status = "panic" THEN "panic" ELSE "Ok"]]
    /\ UNCHANGED <<clockVars, world, galaxyVars>>

NextValidity ==
    \/ EngineSpawnAgent(0)
    \/ \E time \in 0 .. MaxEngineSteps : EngineSchedule(0, 0, time)
    \/ \E e \in 0 .. MaxEngineSteps : \E m \in 0 .. MaxEngineSteps : SetClocks(0, e, m)
    \/ StepCall(0)

SpecValidity == InitRollback /\ [][NextValidity]_vars

\* C24: at the start of a step check_time_validity fails with ClockSyncIssue
\* whenever the event wheel's clock, the message wheel's clock and the LVT
\* are not all equal, and nothing is processed in that step.
C24_ClockSyncIssueWhenNotAllEqual ==
    [][phist'.last.op = "step" =>
          LET w == phist'.last.target
          IN  ~(planet[w].ev.step = planet[w].ms.step /\ planet[w].ms.step = net.lvt[w]) =>
                  /\ phist'.last.res = "ClockSyncIssue"
                  /\ planet' = planet /\ net' = net]_vars

(***************************************************************************)
(* A Block that counts the Msgs of one planet: send and recv are called on *)
(* the current block, and the planet moves on to the next block.           *)
(***************************************************************************)
MaxBlockCalls == 3

\* Block::recv; recvs_from_previous[blocks] of the code is the entry
\* blocks + 1 of the sequence
BlockRecv(b, send_timestamp) ==
    IF send_timestamp < b.start
    THEN LET blocks == (b.start - send_timestamp) \div (b.end - b.start)
         IN  IF blocks >= BLOCK_SLOTS
             THEN [res |-> "DistantBlocks", block |-> b]
             ELSE [res |-> "Ok",
                   block |-> [b EXCEPT !.recvs_from_previous[blocks + 1] = @ + 1]]
    ELSE [res |-> "Ok", block |-> [b EXCEPT !.recvs = @ + 1]]

\* Block::send
BlockSend(b) == [b EXCEPT !.sends = @ + 1]

InitBlock ==
    /\ ClockOff
    /\ world = [status |-> "off"]
    /\ GalaxyOff
    /\ planet = [block |-> BlockNew(BlockStart(0), BlockEnd(0)).block, k |-> 0]
    /\ net = [status |-> "off"]
    /\ phist = [n |-> 0, last |-> NoCall]

SendCall ==
    /\ phist.n < MaxBlockCalls
    /\ planet' = [planet EXCEPT !.block = BlockSend(@)]
    /\ phist' = [n |-> phist.n + 1,
                 last |-> [op |-> "send", target |-> 0, time |-> 0, agent |-> 0, res |-> "Ok"]]
    /\ UNCHANGED <<clockVars, world, net, galaxyVars>>

RecvCall(send_timestamp) ==
    /\ phist.n < MaxBlockCalls
    /\ planet' = [planet EXCEPT !.block = BlockRecv(@, send_timestamp).block]
    /\ phist' = [n |-> phist.n + 1,
                 last |-> [op |-> "recv", target |-> 0, time |-> send_timestamp, agent |-> 0,
                           res |-> BlockRecv(planet.block, send_timestamp).res]]
    /\ UNCHANGED <<clockVars, world, net, galaxyVars>>

\* the planet has passed the end of its block: the next block is created
AdvanceBlock ==
    /\ planet.k + 1 < MaxBlocks
    /\ planet' = [block |-> BlockNew(BlockStart(planet.k + 1), BlockEnd(planet.k + 1)).block,
                  k |-> planet.k + 1]
    /\ phist' = [phist EXCEPT !.last = [op |-> "advance", target |-> 0, time |-> 0,
                                        agent |-> 0, res |-> "Ok"]]
    /\ UNCHANGED <<clockVars, world, net, galaxyVars>>

NextBlock ==
    \/ SendCall
    \/ \E send_timestamp \in 1 .. GTerminal : RecvCall(send_timestamp)
    \/ AdvanceBlock

SpecBlock == InitBlock /\ [][NextBlock]_vars

\* how many blocks before block b the time t lies: 1 for the block just
\* before b, the blocks being as wide as b
BlocksOlder(b, t) == (b.start - 1 - t) \div (b.end - b.start + 1) + 1

\* C29: Block::recv(sent_time) increments only recvs when sent_time is not
\* before the block's start; when it is before the start it increments only
\* one entry of recvs_from_previous; it fails with DistantBlocks, every
\* counter unchanged, exactly when the Msg is more than BLOCK_SLOTS blocks
\* older than the current block.
C29_RecvCountsOrDistantBlocks ==
    [][phist'.last.op = "recv" /\ phist'.n = phist.n + 1 =>
          LET b == planet.block
              sent == phist'.last.time
              now == planet'.block
          IN  /\ sent >= b.start =>
                     phist'.last.res = "Ok" /\ now = [b EXCEPT !.recvs = @ + 1]
              /\ (sent < b.start /\ BlocksOlder(b, sent) <= BLOCK_SLOTS) =>
                     /\ phist'.last.res = "Ok"
                     /\ \E d \in BlockSlots : now = [b EXCEPT !.recvs_from_previous[d] = @ + 1]
              /\ (sent < b.start /\ BlocksOlder(b, sent) > BLOCK_SLOTS) =>
                     phist'.last.res = "DistantBlocks" /\ now = b]_vars

(***************************************************************************)
(* Agents spawned on the Planets of a HybridEngine, by spawn_agent and by  *)
(* spawn_agent_autobalance.                                                *)
(***************************************************************************)
BalancedWorlds == 3
MaxSpawns == 5

\* a choice of the world that has the most agents
RECURSIVE MostLoaded(_, _, _)
MostLoaded(planets, i, lowest) ==
    IF i = BalancedWorlds THEN lowest
    ELSE MostLoaded(planets, i + 1,
                    IF lowest.count = U64Max \/ planets[i].agents > lowest.count
                    THEN [idx |-> i, count |-> planets[i].agents] ELSE lowest)

\* the loop of spawn_agent_autobalance over the planets: lowest is the pair
\* (index, count), (usize::MAX, usize::MAX) at the start
RECURSIVE LeastLoaded(_, _, _)
LeastLoaded(planets, i, lowest) ==
    IF i = BalancedWorlds THEN lowest
    ELSE LeastLoaded(planets, i + 1,
                     IF planets[i].agents < lowest.count
                     THEN [idx |-> i, count |-> planets[i].agents] ELSE lowest)

InitBalance ==
    /\ ClockOff
    /\ GalaxyOff
    /\ world = [status |-> "off"]
    /\ planet = [w \in 0 .. (BalancedWorlds - 1) |-> ConfiguredPlanet]
    /\ net = [lvt |-> [w \in 0 .. (BalancedWorlds - 1) |-> 0], gvt |-> 0]
    /\ phist = [spawns |-> 0, auto |-> TRUE, last |-> NoCall]

\* HybridEngine::spawn_agent
SpawnAgentOn(planet_id) ==
    /\ phist.spawns < MaxSpawns
    /\ IF planet_id >= BalancedWorlds
       THEN /\ UNCHANGED planet
            /\ phist' = [phist EXCEPT !.last = [op |-> "spawn_agent", target |-> planet_id,
                                                time |-> 0, agent |-> 0,
                                                res |-> "InvalidWorldId"]]
       ELSE /\ planet' = [planet EXCEPT ![planet_id].agents = @ + 1]
            /\ phist' = [spawns |-> phist.spawns + 1,
                         auto |-> FALSE,
                         last |-> [op |-> "spawn_agent", target |-> planet_id, time |-> 0,
                                   agent |-> planet[planet_id].agents, res |-> "Ok"]]
    /\ UNCHANGED <<clockVars, world, net, galaxyVars>>

\* HybridEngine::spawn_agent_autobalance
SpawnAgentAutobalance ==
    /\ phist.spawns < MaxSpawns
    /\ \E lowest \in {LeastLoaded(planet, 0, [idx |-> U64Max, count |-> U64Max])} :
          /\ planet' = [planet EXCEPT ![lowest.idx].agents = @ + 1]
          /\ phist' = [phist EXCEPT
                          !.spawns = @ + 1,
                          !.last = [op |-> "spawn_agent_autobalance", target |-> lowest.idx,
                                    time |-> 0, agent |-> lowest.count, res |-> "Ok"]]
    /\ UNCHANGED <<clockVars, world, net, galaxyVars>>

NextBalance ==
    \/ \E planet_id \in 0 .. BalancedWorlds : SpawnAgentOn(planet_id)
    \/ SpawnAgentAutobalance

SpecBalance == InitBalance /\ [][NextBalance]_vars

\* C30: spawn_agent_autobalance places the new agent on a world whose agent
\* count is minimal; after any sequence of autobalance spawns that starts
\* from empty worlds the agent counts of any two worlds differ by at most 1
\* and sum to the number of spawns.
C30_AutobalancePlacesOnLeastLoaded ==
    /\ [](phist.auto =>
             /\ \A v \in DOMAIN planet : \A w \in DOMAIN planet :
                    planet[v].agents <= planet[w].agents + 1
             /\ SumOver([w \in DOMAIN planet |-> planet[w].agents], DOMAIN planet)
                    = phist.spawns)
    /\ [][(phist'.last.op = "spawn_agent_autobalance" /\ phist'.spawns = phist.spawns + 1) =>
             /\ \A v \in DOMAIN planet :
                    planet[phist'.last.target].agents <= planet[v].agents
             /\ planet' = [planet EXCEPT ![phist'.last.target].agents = @ + 1]]_vars

\* autobalance spawns only, one more than there are worlds
C30_Witness ==
    /\ phist.auto
    /\ phist.last.op = "spawn_agent_autobalance"
    /\ phist.spawns = BalancedWorlds + 1

(***************************************************************************)
(* Lumi, the logger of one state variable.  Values of a Copy type of size  *)
(* 1 (u8) or 4 (u32) are logged.  initialize builds the arena with         *)
(* vec![(alloc(layout), 0); slots], which clones the pair: every slot of   *)
(* the arena holds the same pointer, so the arena has one cell of memory,  *)
(* and write, which finds that the value fits at the slot's pointer, keeps *)
(* that pointer.  Memory that alloc returns holds any value.               *)
(***************************************************************************)
MaxLumiSlots == 2
MaxLumiValue == 1
MaxLumiTime == 3
MaxLumiCalls == 4
TypeSizes == {1, 4}
LumiValues == 0 .. MaxLumiValue

\* Lumi::initialize, and the seed written to the state as the tests do
LumiInitialize(slots, size, seed, cell) ==
    [arena |-> [i \in 1 .. slots |-> 0], cell |-> cell, slots |-> slots, size |-> size,
     current |-> 0, time |-> 0, state |-> seed, history |-> << >>, status |-> "run"]

\* Lumi::flush: the content of each slot is swapped with a new allocation,
\* which is pushed to history with the slot's time; g[i] is what the i-th
\* allocation held
LumiFlush(l, g) ==
    [l EXCEPT !.history = @ \o [i \in 1 .. l.slots |->
                                   [value |-> IF i = 1 THEN l.cell ELSE g[i - 1],
                                    time |-> l.arena[i]]],
              !.cell = g[l.slots],
              !.arena = [i \in 1 .. l.slots |-> 0]]

\* Lumi::write: arena[slot] with slot = current is indexed without a test
LumiWrite(l, state, time, g) ==
    IF l.current >= l.slots THEN [l EXCEPT !.status = "panic"]
    ELSE LET written == [l EXCEPT !.cell = state, !.arena[l.current + 1] = time]
             flushed == IF l.current = l.slots - 1 THEN LumiFlush(written, g) ELSE written
         IN  [flushed EXCEPT !.current = (l.current + 1) % l.size]

\* Lumi::update
LumiUpdate(l, new, time, g) ==
    LET written == LumiWrite([l EXCEPT !.state = new], l.state, l.time, g)
    IN  IF written.status = "panic" THEN written ELSE [written EXCEPT !.time = time]

\* Iterator::rposition over the times of a sequence: 0 stands for None
Rposition(times, time) ==
    IF \E i \in 1 .. Len(times) : times[i] = time
    THEN CHOOSE i \in 1 .. Len(times) :
             /\ times[i] = time
             /\ \A j \in 1 .. Len(times) : times[j] = time => j <= i
    ELSE 0

\* Lumi::rollback.  Dropping and deallocating values of a Copy type changes
\* nothing the logger reads afterwards.
LumiRollback(l, time) ==
    IF time >= l.time THEN [lumi |-> l, res |-> "RollbackTimeMismatch"]
    ELSE IF Rposition(l.arena, time) # 0
    THEN [lumi |-> [l EXCEPT !.state = l.cell, !.cell = l.state], res |-> "Ok"]
    ELSE IF Rposition([i \in 1 .. Len(l.history) |-> l.history[i].time], time) = 0
    THEN [lumi |-> [l EXCEPT !.status = "panic"], res |-> "panic"]
    ELSE [lumi |-> l, res |-> "Ok"]

\* phist.truth is the journal the calls describe: the seed at step 0 and the
\* value of every update with its step, cut by the rollbacks that succeeded
InitLumi ==
    /\ ClockOff
    /\ GalaxyOff
    /\ planet = << >>
    /\ net = [status |-> "off"]
    /\ \E slots \in 1 .. MaxLumiSlots : \E size \in TypeSizes :
       \E seed \in LumiValues : \E cell \in LumiValues :
          /\ world = [status |-> "logging", lumi |-> LumiInitialize(slots, size, seed, cell)]
          /\ phist = [n |-> 0, last |-> NoCall, truth |-> <<[value |-> seed, step |-> 0]>>]

UpdateCall(new, time) ==
    /\ world.status = "logging"
    /\ world.lumi.status = "run"
    /\ phist.n < MaxLumiCalls
    /\ time > world.lumi.time
    /\ \E g \in [1 .. world.lumi.slots -> LumiValues] :
          world' = [world EXCEPT !.lumi = LumiUpdate(@, new, time, g)]
    /\ phist' = [n |-> phist.n + 1,
                 last |-> [op |-> "update", target |-> 0, time |-> time, agent |-> 0,
                           res |-> "Ok"],
                 truth |-> Append(phist.truth, [value |-> new, step |-> time])]
    /\ UNCHANGED <<clockVars, planet, net, galaxyVars>>

RollbackCall(time) ==
    /\ world.status = "logging"
    /\ world.lumi.status = "run"
    /\ phist.n < MaxLumiCalls
    /\ \E rb \in {LumiRollback(world.lumi, time)} :
          /\ world' = [world EXCEPT !.lumi = rb.lumi]
          /\ phist' = [n |-> phist.n + 1,
                       last |-> [op |-> "rollback", target |-> 0, time |-> time, agent |-> 0,
                                 res |-> rb.res],
                       truth |-> IF rb.res = "Ok"
                                 THEN SelectSeq(phist.truth, LAMBDA e : e.step <= time)
                                 ELSE phist.truth]
    /\ UNCHANGED <<clockVars, planet, net, galaxyVars>>

NextLumi ==
    \/ \E new \in LumiValues : \E time \in 1 .. MaxLumiTime : UpdateCall(new, time)
    \/ \E time \in 0 .. MaxLumiTime : RollbackCall(time)

SpecLumi == InitLumi /\ [][NextLumi]_vars

\* the latest entry of the journal with step <= target
LatestAt(truth, target) ==
    truth[CHOOSE i \in 1 .. Len(truth) :
              /\ truth[i].step <= target
              /\ \A j \in 1 .. Len(truth) : truth[j].step <= target => j <= i]

\* C31: rollback(target) of the state journal, for every target not
\* exceeding the journal's current step, succeeds, restores as the current
\* value the latest entry with step <= target (also when no entry was
\* written at step = target) and discards every entry with step > target.
C31_RollbackRestoresLatestEntry ==
    [][(/\ phist'.last.op = "rollback"
        /\ phist'.n = phist.n + 1
        /\ phist'.last.time <= world.lumi.time)
          => /\ phist'.last.res = "Ok"
             /\ world'.lumi.state = LatestAt(phist.truth, phist'.last.time).value
             /\ \A i \in 1 .. world'.lumi.slots :
                    world'.lumi.arena[i] <= phist'.last.time
             /\ \A i \in 1 .. Len(world'.lumi.history) :
                    world'.lumi.history[i].time <= phist'.last.time]_vars

(***************************************************************************)
(* The actions agents yield.  A Planet with MaxAgentId + 1 agents is       *)
(* scheduled and stepped; an agent that is stepped returns an Event, whose *)
(* agent field and yield_ are the agent's choice.                          *)
(***************************************************************************)
YieldTimes == {0, 1, 2, STerminal}

\* Action, with the u64 of Timeout, Schedule and Trigger taken from YieldTimes
Yields ==
    [kind : {"Timeout", "Schedule"}, time : YieldTimes, idx : {0}]
        \cup [kind : {"Trigger"}, time : YieldTimes, idx : 0 .. MaxAgentId]
        \cup [kind : {"Wait", "Break"}, time : {0}, idx : {0}]

\* the id of the Event committed for the i-th agent stepped at step now
ActionId(now, i) == 2000 + 10 * now + i

\* the Event a yield has committed, if any: Event::new(now, time, agent, Wait)
YieldCommits(yield, now) ==
    IF yield.kind = "Timeout" THEN now + yield.time <= STerminal
    ELSE yield.kind \in {"Schedule", "Trigger"}

\* the loop over the events of a tick in Planet::step: rets[a] is the Event
\* that agent a returns from step
RECURSIVE ProcessYields(_, _, _, _, _, _)
ProcessYields(pl, events, rets, i, checks, stepped) ==
    IF events = << >> \/ pl.status = "panic" THEN [planet |-> pl, stepped |-> stepped]
    ELSE IF Head(events).who >= pl.agents THEN [planet |-> Dead(pl), stepped |-> stepped]
    ELSE LET event == rets[Head(events).who]
             now == Now(pl)
             done == Append(stepped, [agent |-> Head(events).who, id |-> ActionId(now, i)])
             new == [id |-> ActionId(now, i),
                     time |-> IF event.yield.kind = "Timeout" THEN now + event.yield.time
                              ELSE event.yield.time,
                     commit |-> now, kind |-> "Event",
                     who |-> IF event.yield.kind = "Trigger" THEN event.yield.idx
                             ELSE event.agent]
         IN  IF event.yield.kind = "Break" THEN [planet |-> pl, stepped |-> done]
             ELSE ProcessYields(IF YieldCommits(event.yield, now)
                                THEN CommitEvent(pl, new, checks) ELSE pl,
                                Tail(events), rets, i + 1, checks, done)

\* what an agent that is not stepped returns: nothing, it is not asked
NotAsked == [agent |-> 0, yield |-> [kind |-> "Wait", time |-> 0, idx |-> 0]]

MaxActionSteps == 2

InitAction ==
    /\ ClockOff
    /\ GalaxyOff
    /\ world = [status |-> "off"]
    /\ planet = [w \in Worlds |-> [ConfiguredPlanet EXCEPT !.agents = MaxAgentId + 1]]
    /\ net = [lvt |-> [w \in Worlds |-> 0], gvt |-> 0]
    /\ phist = [n |-> 0, last |-> NoCall]

\* Planet::step, the agents returning what they choose
ActionStep(w) ==
    /\ planet[w].status = "run"
    /\ Now(planet[w]) < MaxActionSteps
    /\ TimeValidity(planet[w], net.lvt[w], net.gvt, STerminal) = "ok"
    /\ \E checks \in BOOLEAN :
       \E rets \in {r \in [0 .. MaxAgentId -> [agent : 0 .. MaxAgentId, yield : Yields]] :
                       \A a \in 0 .. MaxAgentId :
                          (\A i \in 1 .. Len(ClockTick(planet[w].ev).events) :
                              ClockTick(planet[w].ev).events[i].who # a) => r[a] = NotAsked} :
       \E p \in {ProcessYields([planet[w] EXCEPT !.ms = ClockTick(planet[w].ms).clock,
                                                 !.ev = ClockTick(planet[w].ev).clock],
                               ClockTick(planet[w].ev).events, rets, 0, checks, << >>)} :
       \E pl2 \in {IF p.planet.status = "panic" THEN p.planet
                   ELSE PlanetIncrement(p.planet, checks)} :
          /\ planet' = [planet EXCEPT ![w] = pl2]
          /\ net' = [net EXCEPT !.lvt[w] = IF pl2.status = "panic" THEN @ ELSE Now(pl2)]
          /\ phist' = [phist EXCEPT !.last =
                          [op |-> "step", target |-> w, time |-> Now(planet[w]), agent |-> 0,
                           res |-> IF pl2.status = "panic" THEN "panic" ELSE "Ok",
                           stepped |-> p.stepped, rets |-> rets]]
    /\ UNCHANGED <<clockVars, world, galaxyVars>>

NextAction ==
    \/ \E agent \in 0 .. MaxAgentId : \E time \in 0 .. MaxEngineSteps :
          EngineSchedule(0, agent, time)
    \/ ActionStep(0)

SpecAction == InitAction /\ [][NextAction]_vars

\* the Events the claim expects of a step: one for each agent stepped, for
\* the agent that was stepped
ExpectedOf(stepped, rets, now) ==
    {[id |-> stepped[i].id,
      time |-> IF rets[stepped[i].agent].yield.kind = "Timeout"
               THEN now + rets[stepped[i].agent].yield.time
               ELSE rets[stepped[i].agent].yield.time,
      commit |-> now, kind |-> "Event",
      who |-> IF rets[stepped[i].agent].yield.kind = "Trigger"
              THEN rets[stepped[i].agent].yield.idx ELSE stepped[i].agent] :
        i \in {j \in 1 .. Len(stepped) : YieldCommits(rets[stepped[j].agent].yield, now)}}

\* C32: after an agent is stepped at step now, Timeout(d) schedules exactly
\* one Wait event (commit_time = now, time = now + d) for the agent that was
\* stepped, or nothing when that time is past terminal; Schedule(t)
\* schedules (now, t, same agent, Wait); Trigger{time, idx} schedules
\* (now, time, idx, Wait); Wait schedules nothing.
C32_YieldedActionScheduled ==
    [][phist'.last.op = "step" /\ planet'[phist'.last.target] # planet[phist'.last.target] =>
          LET w == phist'.last.target
              expected == ExpectedOf(phist'.last.stepped, phist'.last.rets, phist'.last.time)
          IN  /\ EventsOf(planet'[w]) \ EventsOf(planet[w]) = expected
              /\ EventCount(planet'[w])
                     = EventCount(planet[w]) - Len(ClockTick(planet[w].ev).events)
                           + Cardinality(expected)]_vars

(***************************************************************************)
(* The anti-message journal under Planet::rollback: Planet 0 steps, its    *)
(* agent sending to either world, polls its own inbox, and is rolled back. *)
(***************************************************************************)
MaxRetractSteps == 3

InitRetract ==
    /\ ClockOff
    /\ GalaxyOff
    /\ world = [status |-> "off"]
    /\ planet = [w \in Worlds |-> NewPlanet(w)]
    /\ net = [pool |-> << >>, inbox |-> << >>, gvt |-> 0, lvt |-> [w \in Worlds |-> 0],
              sends |-> 0, remote |-> << >>]
    /\ phist = [last |-> [op |-> "none", time |-> 0, res |-> "none", out |-> << >>,
                          own |-> {}, rollbacks |-> << >>]]

\* the mail handed to the messenger: the pool keeps what goes to other worlds,
\* the inbox what is addressed to this one
Handover(w, out) ==
    [net EXCEPT !.pool = @ \o SelectSeq(out, LAMBDA m : m.to_world # w),
                !.inbox = @ \o SelectSeq(out, LAMBDA m : m.to_world = w)]

\* Planet::step
RetractStep(w) ==
    /\ planet[w].status = "run"
    /\ Now(planet[w]) < MaxRetractSteps
    /\ CheckTimeValidity(planet[w], net.lvt[w], net.gvt) = "ok"
    /\ \E checks \in Builds(planet[w]) :
       \E beh \in IF net.sends >= MaxSends THEN {Idle} ELSE AgentBehaviours :
       \E st \in {PlanetStep(planet[w], w, beh, net.sends, checks)} :
          /\ planet' = [planet EXCEPT ![w] = st.planet]
          /\ net' = [Handover(w, st.out) EXCEPT
                        !.sends = st.sent,
                        !.lvt[w] = IF st.planet.status = "panic" THEN @ ELSE Now(st.planet)]
          /\ phist' = [last |-> [op |-> "step", time |-> Now(planet[w]),
                                 res |-> IF st.planet.status = "panic" THEN "panic" ELSE "Ok",
                                 out |-> st.out, own |-> {}, rollbacks |-> << >>]]
    /\ UNCHANGED <<clockVars, world, galaxyVars>>

\* Planet::poll_interplanetary_messenger
RetractPoll(w) ==
    /\ planet[w].status = "run"
    /\ net.inbox # << >>
    /\ \E checks \in Builds(planet[w]) :
       \E polled \in {PollInterplanetaryMessenger(planet[w], w, net.lvt[w], net.inbox, checks)} :
          /\ planet' = [planet EXCEPT ![w] = polled.planet]
          /\ net' = [[net EXCEPT !.inbox = << >>, !.lvt[w] = polled.lvt]
                        EXCEPT !.pool = @ \o SelectSeq(polled.out, LAMBDA m : m.to_world # w),
                               !.inbox = SelectSeq(polled.out, LAMBDA m : m.to_world = w)]
          /\ phist' = [last |-> [op |-> "poll", time |-> Now(planet[w]),
                                 res |-> IF polled.planet.status = "panic" THEN "panic" ELSE "Ok",
                                 out |-> polled.out, own |-> polled.own,
                                 rollbacks |-> polled.rollbacks]]
    /\ UNCHANGED <<clockVars, world, galaxyVars>>

\* Planet::rollback
RetractRollback(w, time) ==
    /\ planet[w].status = "run"
    /\ time <= Now(planet[w])
    /\ \E checks \in Builds(planet[w]) :
       \E rb \in {PlanetRollback(planet[w], w, time, net.lvt[w], checks)} :
          /\ planet' = [planet EXCEPT ![w] = rb.planet]
          /\ net' = [Handover(w, rb.out) EXCEPT !.lvt[w] = rb.lvt]
          /\ phist' = [last |-> [op |-> "rollback", time |-> time,
                                 res |-> IF rb.planet.status = "panic" THEN "panic" ELSE "Ok",
                                 out |-> rb.out, own |-> rb.own, rollbacks |-> << >>]]
    /\ UNCHANGED <<clockVars, world, galaxyVars>>

NextRetract ==
    \/ RetractStep(0)
    \/ RetractPoll(0)
    \/ \E time \in 0 .. MaxRetractSteps : RetractRollback(0, time)

SpecRetract == InitRetract /\ [][NextRetract]_vars

\* the mails of the journal entries stamped after time
ReclaimedMails(pl, time) ==
    [i \in 1 .. Len(Reclaimed(pl, time)) |-> Reclaimed(pl, time)[i].mail]

MaxRemote == 2

\* world 1 sends a Msg to world 0: PlanetContext::send_mail
RemoteSend(recv) ==
    /\ Len(net.remote) < MaxRemote
    /\ net' = [net EXCEPT
                  !.inbox = Append(@, [kind |-> "Msg", id |-> MailId(1, Len(net.remote)),
                                       sent |-> 0, recv |-> recv, from_world |-> 1,
                                       to_world |-> 0]),
                  !.remote = Append(@, [id |-> MailId(1, Len(net.remote)), recv |-> recv,
                                        retracted |-> FALSE])]
    /\ phist' = [last |-> [op |-> "send", time |-> recv, res |-> "Ok", out |-> << >>,
                           own |-> {}, rollbacks |-> << >>]]
    /\ UNCHANGED <<clockVars, world, planet, galaxyVars>>

\* world 1 rolls back and sends the AntiMsg of its i-th Msg: Planet::rollback
RemoteRetract(i) ==
    /\ i \in 1 .. Len(net.remote)
    /\ ~net.remote[i].retracted
    /\ net' = [net EXCEPT
                  !.inbox = Append(@, [kind |-> "AntiMsg", id |-> net.remote[i].id,
                                       sent |-> 0, recv |-> net.remote[i].recv,
                                       from_world |-> 1, to_world |-> 0]),
                  !.remote[i].retracted = TRUE]
    /\ phist' = [last |-> [op |-> "retract", time |-> net.remote[i].recv, res |-> "Ok",
                           out |-> << >>, own |-> {}, rollbacks |-> << >>]]
    /\ UNCHANGED <<clockVars, world, planet, galaxyVars>>

NextPoll ==
    \/ RetractStep(0)
    \/ RetractPoll(0)
    \/ \E recv \in 1 .. MaxRetractSteps : RemoteSend(recv)
    \/ \E i \in 1 .. MaxRemote : RemoteRetract(i)

SpecPoll == InitRetract /\ [][NextPoll]_vars

\* the rollbacks the claim expects of a poll: one for each transfer whose
\* time is below the LVT the transfers before it have left
RECURSIVE ExpectedRollbacks(_, _)
ExpectedRollbacks(mails, lvt) ==
    IF mails = << >> THEN << >>
    ELSE IF Head(mails).recv < lvt
         THEN <<Head(mails).recv>> \o ExpectedRollbacks(Tail(mails), Head(mails).recv)
         ELSE ExpectedRollbacks(Tail(mails), lvt)

\* the Msgs the message wheel and its overflow hold
MsgsOf(pl) ==
    UNION {{pl.ms.wheels[k][s][i] : i \in 1 .. Len(pl.ms.wheels[k][s])} :
             k \in Levels, s \in Slots} \cup pl.mso

MaxMsgs == 3
MsgSents == {0, 1}
MsgRecvs == {1, 2, 3, Horizon + 1}

\* Planet::commit_mail of a Msg (sent, recv, from 0, to 0)
CommitMsg(sent, recv) ==
    /\ planet[0].status = "run"
    /\ phist.n < MaxMsgs
    /\ recv >= planet[0].ms.step
    /\ \E checks \in BOOLEAN :
          planet' = [planet EXCEPT ![0] =
                        CommitMail(@, [id |-> MailId(0, phist.n), time |-> recv, commit |-> sent,
                                       kind |-> "Message", who |-> 0], checks)]
    /\ phist' = [n |-> phist.n + 1,
                 last |-> [op |-> "commit_mail", target |-> 0, time |-> recv, agent |-> sent,
                           res |-> "Ok"]]
    /\ UNCHANGED <<clockVars, world, net, galaxyVars>>

\* Planet::annihilate of AntiMsg (sent, recv, from 0, to 0)
AnnihilateCall(sent, recv) ==
    /\ planet[0].status = "run"
    /\ recv >= planet[0].ms.step
    /\ planet' = [planet EXCEPT ![0] =
                     Annihilate(@, [kind |-> "AntiMsg", id |-> 0, sent |-> sent, recv |-> recv,
                                    from_world |-> 0, to_world |-> 0])]
    /\ phist' = [phist EXCEPT !.last = [op |-> "annihilate", target |-> 0, time |-> recv,
                                        agent |-> sent, res |-> "Ok"]]
    /\ UNCHANGED <<clockVars, world, net, galaxyVars>>

NextAnnihilate ==
    \/ \E sent \in MsgSents, recv \in MsgRecvs : CommitMsg(sent, recv)
    \/ \E sent \in MsgSents, recv \in MsgRecvs : AnnihilateCall(sent, recv)
    \/ EngineStep(0)

SpecAnnihilate == InitRollback /\ [][NextAnnihilate]_vars

\* the list without its first Msg that the AntiMsg (sent, recv) matches
RECURSIVE WithoutFirst(_, _, _)
WithoutFirst(list, sent, recv) ==
    IF list = << >> THEN << >>
    ELSE IF Head(list).commit = sent /\ Head(list).time = recv THEN Tail(list)
    ELSE <<Head(list)>> \o WithoutFirst(Tail(list), sent, recv)

\* C35: annihilate(anti) removes from the message wheel, or from the overflow
\* heap, exactly one Msg, the first whose (sent, recv, from, to) equals the
\* anti-message's, and leaves every other pending Msg in place and in its
\* insertion order; when no Msg matches, wheel and overflow are unchanged.
C35_AnnihilateRemovesFirstMatch ==
    [][phist'.last.op = "annihilate" /\ phist' # phist =>
          LET sent == phist'.last.agent
              recv == phist'.last.time
              inWheel == {m \in MsgsOf(planet[0]) \ planet[0].mso :
                             m.commit = sent /\ m.time = recv}
              inHeap == {m \in planet[0].mso : m.commit = sent /\ m.time = recv}
          IN  /\ inWheel # {} =>
                    /\ \A k \in Levels : \A s \in Slots :
                          planet'[0].ms.wheels[k][s]
                              = WithoutFirst(planet[0].ms.wheels[k][s], sent, recv)
                    /\ planet'[0].mso = planet[0].mso
              /\ (inWheel = {} /\ inHeap # {}) =>
                    /\ planet'[0].ms = planet[0].ms
                    /\ \E m \in inHeap : planet'[0].mso = planet[0].mso \ {m}
              /\ (inWheel = {} /\ inHeap = {}) =>
                    /\ planet'[0].ms = planet[0].ms
                    /\ planet'[0].mso = planet[0].mso]_vars

(***************************************************************************)
(* Clock::rollback as a whole, in SpecClock                                *)
(***************************************************************************)
\* the items of the wheels, as a set
WheelItems(c) ==
    UNION {{c.wheels[k][s][i] : i \in 1 .. Len(c.wheels[k][s])} : k \in Levels, s \in Slots}

\* what a rollback to t is to keep: every message, and the events committed
\* before t
KeptBy(t, items) == {e \in items : ~(e.kind = "Event" /\ e.commit >= t)}

\* C36: Clock::rollback(t, overflow) resets every cursor to 0 and the step to
\* t, removes every Event with commit_time >= t from the wheels and from the
\* overflow heap, keeps every other item scheduled exactly once, in the
\* bucket that matches its delay from t, and completes without failure for
\* any number of items per bucket.
C36_RollbackKeepsAndReinserts ==
    [][cenv'.nrollbacks = cenv.nrollbacks + 1 =>
          /\ cenv'.status = "ok"
          /\ chist'.lastRollback = "ok"
          /\ \A k \in Levels : clock'.idxs[k] = 0
          /\ clock'.step <= clock.step
          /\ WheelItems(clock') \cup overflow'
                 = KeptBy(clock'.step, WheelItems(clock) \cup overflow)
          /\ WheelCount(clock') + Cardinality(overflow')
                 = Cardinality(KeptBy(clock'.step, WheelItems(clock) \cup overflow))
          /\ \A e \in WheelItems(clock') :
                \E k \in Levels :
                    /\ e.time - clock'.step >= StartIdx(k)
                    /\ e.time - clock'.step <= EndIdx(k)
                    /\ BucketsOf(clock', e.id)
                           = {<<k, ((e.time - clock'.step - StartIdx(k)) \div Pow(SLOTS, k))
                                       % SLOTS>>}]_vars

(***************************************************************************)
(* The pending ring under commit_block, in SpecGalaxy                      *)
(***************************************************************************)
\* C37: on committing a block with end e the coordinator sets GVT = e and
\* shifts the pending ring by one for every world: the nearest pending block
\* becomes the next block, each remaining pending block moves one slot
\* toward the front, the last slot becomes empty, and no pending block is
\* lost or duplicated.
C37_CommitShiftsPendingRing ==
    [][(galaxy.status = "run" /\ galaxy'.block_counter = galaxy.block_counter + 1) =>
          /\ galaxy'.gvt = galaxy.next[0].end
          /\ \A w \in Worlds :
                /\ galaxy'.next[w] = galaxy.pending[w][1]
                /\ \A j \in BlockSlots :
                      galaxy'.pending[w][j]
                          = IF j < BLOCK_SLOTS THEN galaxy.pending[w][j + 1] ELSE NoBlock
          /\ Cardinality(PendingBlocks(galaxy'))
                 + Cardinality({w \in Worlds : galaxy'.next[w].some})
                 = Cardinality(PendingBlocks(galaxy))]_vars

\* a commit has moved a block from the second pending slot to the first,
\* behind the block it made the next one
C37_Witness ==
    /\ galaxy.status = "run"
    /\ gvtcomms.shifted >= 2
    /\ Len(gvtcomms.broadcast) = 1
    /\ \E w \in Worlds :
          /\ galaxy.next[w].some /\ galaxy.next[w].start = galaxy.gvt + 1
          /\ galaxy.pending[w][1].some
          /\ galaxy.pending[w][1].start = galaxy.gvt + BlockSize + 1

(***************************************************************************)
(* The rotations of Clock::increment, in SpecClock                         *)
(***************************************************************************)
\* C38: a rotation of level k >= 1 fires exactly at the steps where
\* clock.step mod SLOTS^k = 0, and every item of the bucket it sweeps is
\* re-inserted into a level strictly below k, never back into level k and
\* never into overflow.
C38_RotationCascadesDown ==
    [][(clock'.step = clock.step + 1 /\ cenv'.status = "ok") =>
          \A k \in Levels \ {0} :
              /\ (clock'.idxs[k] # clock.idxs[k]) <=> (clock'.step % Pow(SLOTS, k) = 0)
              /\ clock'.idxs[k] # clock.idxs[k] =>
                    \A id \in SeqIds(clock.wheels[k][clock.idxs[k]]) :
                        /\ BucketsOf(clock', id) # {}
                        /\ \A b \in BucketsOf(clock', id) : b[1] < k
                        /\ id \notin OverflowIds(overflow')]_vars

(***************************************************************************)
(* The send and receive counters, in SpecPlanets                           *)
(***************************************************************************)
\* the envelopes handed to the messenger and not yet polled
EnvelopesInFlight ==
    Len(net.pool) + SumOver([w \in Worlds |-> Len(net.inbox[w])], Worlds)

\* C39: the sum of all worlds' recv counters is at most the sum of their
\* send counters, and the difference is the number of envelopes (Msg and
\* AntiMsg alike) handed to the messenger and not yet polled by their
\* destination; so sends - recvs = 0 exactly when no mail is in flight.
C39_CountersMatchMailInFlight ==
    /\ SumOver(net.recvs, Worlds) <= SumOver(net.sends, Worlds)
    /\ SumOver(net.sends, Worlds) - SumOver(net.recvs, Worlds) = EnvelopesInFlight

(***************************************************************************)
(* Planets whose agents send to a world that does not exist, as in         *)
(* test_inter_planetary_messaging_with_failures.                           *)
(***************************************************************************)
MaxAttempts == 3

Faulty == [to |-> NoWorld, delay |-> 1]

InitFaulty ==
    /\ ClockOff
    /\ world = [status |-> "off"]
    /\ GalaxyOff
    /\ planet = [w \in Worlds |-> NewPlanet(w)]
    /\ net = [pool |-> << >>,
              inbox |-> [w \in Worlds |-> << >>],
              gvt |-> 0,
              lvt |-> [w \in Worlds |-> 0],
              checkpoint |-> CheckpointFrequency,
              sends |-> [w \in Worlds |-> 0],
              recvs |-> [w \in Worlds |-> 0],
              daemon |-> "run"]
    /\ phist = [attempts |-> 0, errors |-> 0]

\* the end of an iteration of Planet::run that stepped
FaultyStepped(w, st, attempts) ==
    /\ planet' = [planet EXCEPT ![w] = st.planet]
    /\ net' = [net EXCEPT !.pool = @ \o st.out,
                          !.sends[w] = st.sent,
                          !.lvt[w] = IF st.planet.status = "panic" THEN @ ELSE Now(st.planet)]
    /\ phist' = [attempts |-> phist.attempts + attempts, errors |-> phist.errors + st.errors]

\* one iteration of the loop of Planet::run: the poll (no mail is ever sent,
\* so it finds none), the checkpoint gate, the throttle gate, step
FaultyRun(w) ==
    /\ planet[w].status = "run"
    /\ net.inbox[w] = << >>
    /\ ~AtCheckpoint(Now(planet[w]), net.checkpoint)
    /\ ~Throttled(net.gvt, Now(planet[w]))
    /\ IF CheckTimeValidity(planet[w], net.lvt[w], net.gvt) # "ok"
       THEN /\ planet' = [planet EXCEPT ![w].status =
                             IF CheckTimeValidity(planet[w], net.lvt[w], net.gvt)
                                    = "PastTerminal"
                             THEN "done" ELSE "error"]
            /\ UNCHANGED <<net, phist>>
       ELSE \E beh \in IF phist.attempts < MaxAttempts THEN {Idle, Faulty} ELSE {Idle} :
            \E st \in {PlanetStep(planet[w], w, beh, net.sends[w], FALSE)} :
               FaultyStepped(w, st, IF beh = Faulty
                                    THEN Len(ClockTick(planet[w].ev).events) ELSE 0)
    /\ UNCHANGED <<clockVars, world, galaxyVars>>

NextFaulty ==
    \/ \E w \in Worlds : FaultyRun(w)
    \/ GvtDaemon

\* every thread of the run is scheduled again and again
SpecFaulty ==
    /\ InitFaulty /\ [][NextFaulty]_vars
    /\ \A w \in Worlds : WF_vars(FaultyRun(w))
    /\ WF_vars(GvtDaemon)

\* C40: when send_mail cannot hand the Msg to the messenger (the destination
\* world does not exist) it returns the error to the agent without
\* incrementing the send counter and without journalling an AntiMsg, and the
\* Planet's run continues and terminates with Ok.
C40_FailedSendLeavesNoTrace ==
    /\ [](/\ phist.errors = phist.attempts
          /\ \A w \in Worlds :
                /\ net.sends[w] = 0
                /\ planet[w].anti = << >>
                /\ planet[w].status \in {"run", "done"})
    /\ <>[](\A w \in Worlds : planet[w].status = "done")

\* a run in which sends failed has ended with every Planet done
C40_Witness ==
    /\ phist.errors = MaxAttempts
    /\ \A w \in Worlds : planet[w].status = "done" /\ net.lvt[w] = PTerminal

====
